---- MODULE Spec2Model ----
(***************************************************************************)
(* A model of cozy-syzygy: the Tablebase (material -> table map), the      *)
(* capture search of probe_wdl / probe_alpha_beta, read_wdl's colour       *)
(* canonicalisation and the table dispatcher's load.                       *)
(*                                                                         *)
(* The chess rules (cozy_chess::Board) are an external collaborator of the *)
(* library; they are modelled here on the real 8x8 board so that the       *)
(* positions probed are legal chess positions and the capture moves the    *)
(* search iterates over are the legal captures of those positions.         *)
(***************************************************************************)
EXTENDS Integers, Sequences, FiniteSets, TLC

(***************************************************************************)
(* Squares, colours and pieces (cozy_chess enumerations as the crate uses  *)
(* them: `c as usize`, `p as usize`, Square 0..63 with A1 = 0).            *)
(***************************************************************************)
Squares == 0..63

FileOf(sq) == sq % 8

RankOf(sq) == sq \div 8

SquareNew(f, r) == r * 8 + f

OnBoard(f, r) == f >= 0 /\ f <= 7 /\ r >= 0 /\ r <= 7

flip_rank(sq) == SquareNew(FileOf(sq), 7 - RankOf(sq))

flip_file(sq) == SquareNew(7 - FileOf(sq), RankOf(sq))

White == 0

Black == 1

Not(c) == 1 - c

\* Piece codes are `p as usize + 1`, which are also the low three bits of
\* ColoredPiece.
Pawn == 1

Knight == 2

Bishop == 3

Rook == 4

Queen == 5

King == 6

\* ColoredPiece: bit 3 is the colour, bits 0..2 the piece; 0 is an empty square.
CP(c, p) == 8 * c + p

ColoredPiece_piece(v) == v % 8

ColoredPiece_color(v) == IF v \div 8 = 0 THEN White ELSE Black

(***************************************************************************)
(* cozy_chess::Board, as far as the library reads it: the pieces, the side *)
(* to move, the en-passant file and the castling rights.  An Option is a   *)
(* set with at most one element.                                           *)
(*   board  : [Squares -> 0..14]   0 empty, otherwise a ColoredPiece code  *)
(*   stm    : White or Black                                               *)
(*   ep     : {} or {file}                                                 *)
(*   castle : set of <<colour, "short" | "long">>                          *)
(***************************************************************************)
Abs(x) == IF x < 0 THEN -x ELSE x

Sgn(x) == IF x < 0 THEN -1 ELSE IF x > 0 THEN 1 ELSE 0

Max2(a, b) == IF a > b THEN a ELSE b

Occupied(board) == {s \in Squares : board[s] # 0}

\* position.colors(c)
Colors(board, c) == {s \in Squares : board[s] # 0 /\ ColoredPiece_color(board[s]) = c}

\* position.pieces(p) & position.colors(c)
PiecesOf(board, c, p) == {s \in Squares : board[s] = CP(c, p)}

PawnDir(c) == IF c = White THEN 1 ELSE -1

\* Rank::Second / Rank::Sixth / Rank::Eighth .relative_to(c), as rank indices
RelRank(r, c) == IF c = White THEN r ELSE 7 - r

\* Every square strictly between s and t on a common line is empty.
ClearBetween(board, s, t) ==
    LET df == FileOf(t) - FileOf(s)
        dr == RankOf(t) - RankOf(s)
        n  == Max2(Abs(df), Abs(dr))
    IN \A k \in 1..(n - 1) :
          board[SquareNew(FileOf(s) + k * Sgn(df), RankOf(s) + k * Sgn(dr))] = 0

\* The piece on s attacks square t.
Attacks(board, s, t) ==
    LET v  == board[s]
        p  == ColoredPiece_piece(v)
        c  == ColoredPiece_color(v)
        df == FileOf(t) - FileOf(s)
        dr == RankOf(t) - RankOf(s)
    IN /\ s # t
       /\ CASE p = Pawn   -> dr = PawnDir(c) /\ Abs(df) = 1
            [] p = Knight -> {Abs(df), Abs(dr)} = {1, 2}
            [] p = King   -> Abs(df) <= 1 /\ Abs(dr) <= 1
            [] p = Bishop -> Abs(df) = Abs(dr) /\ ClearBetween(board, s, t)
            [] p = Rook   -> (df = 0 \/ dr = 0) /\ ClearBetween(board, s, t)
            [] p = Queen  -> (df = 0 \/ dr = 0 \/ Abs(df) = Abs(dr))
                                /\ ClearBetween(board, s, t)
            [] OTHER      -> FALSE

Attacked(board, t, by) == \E s \in Colors(board, by) : Attacks(board, s, t)

KingSquare(board, c) == CHOOSE s \in Squares : board[s] = CP(c, King)

InCheck(board, c) == Attacked(board, KingSquare(board, c), Not(c))

\* The en-passant target square: Square::new(f, Rank::Sixth.relative_to(stm)).
EpSquares(pos) == {SquareNew(f, RelRank(5, pos.stm)) : f \in pos.ep}

PromotionPieces == {Knight, Bishop, Rook, Queen}

Mv(from, to, promotion) == [from |-> from, to |-> to, promotion |-> promotion]

\* Pseudo-legal pawn moves of the pawn on s.
PawnMoves(pos, s) ==
    LET c    == pos.stm
        f    == FileOf(s)
        r    == RankOf(s)
        r1   == r + PawnDir(c)
        one  == SquareNew(f, r1)
        two  == SquareNew(f, r1 + PawnDir(c))
        push == (IF pos.board[one] = 0 THEN {one} ELSE {})
                \cup (IF r = RelRank(1, c) /\ pos.board[one] = 0 /\ pos.board[two] = 0
                      THEN {two} ELSE {})
        caps == {t \in {SquareNew(g, r1) : g \in {f - 1, f + 1} \cap (0..7)} :
                    \/ (pos.board[t] # 0 /\ ColoredPiece_color(pos.board[t]) # c)
                    \/ t \in EpSquares(pos)}
    IN UNION {IF RankOf(t) = RelRank(7, c)
              THEN {Mv(s, t, q) : q \in PromotionPieces}
              ELSE {Mv(s, t, 0)} : t \in push \cup caps}

\* Pseudo-legal moves of the piece on s (castling moves are not generated:
\* the library never generates moves of a position with castling rights).
PieceMoves(pos, s) ==
    IF ColoredPiece_piece(pos.board[s]) = Pawn
    THEN PawnMoves(pos, s)
    ELSE {Mv(s, t, 0) : t \in {t \in Squares :
             /\ Attacks(pos.board, s, t)
             /\ (pos.board[t] = 0 \/ ColoredPiece_color(pos.board[t]) # pos.stm)}}

IsEnPassant(pos, mv) ==
    /\ ColoredPiece_piece(pos.board[mv.from]) = Pawn
    /\ mv.to \in EpSquares(pos)

\* Board::play_unchecked
play_unchecked(pos, mv) ==
    LET c      == pos.stm
        v      == pos.board[mv.from]
        p      == ColoredPiece_piece(v)
        placed == IF mv.promotion # 0 THEN CP(c, mv.promotion) ELSE v
        taken  == IF IsEnPassant(pos, mv)
                  THEN {SquareNew(FileOf(mv.to), RankOf(mv.from))} ELSE {}
        b2     == [s \in Squares |->
                     IF s = mv.from \/ s \in taken THEN 0
                     ELSE IF s = mv.to THEN placed ELSE pos.board[s]]
        dbl    == p = Pawn /\ Abs(RankOf(mv.to) - RankOf(mv.from)) = 2
        \* the en-passant file is only recorded when an enemy pawn stands
        \* beside the pawn that made the double step
        ep2    == IF dbl /\ \E g \in {FileOf(mv.to) - 1, FileOf(mv.to) + 1} \cap (0..7) :
                               b2[SquareNew(g, RankOf(mv.to))] = CP(Not(c), Pawn)
                  THEN {FileOf(mv.to)} ELSE {}
        lost   == {cr \in pos.castle :
                     LET home == SquareNew(IF cr[2] = "short" THEN 7 ELSE 0,
                                           RelRank(0, cr[1]))
                     IN \/ (cr[1] = c /\ p = King)
                        \/ mv.from = home
                        \/ mv.to = home}
    IN [board |-> b2, stm |-> Not(c), ep |-> ep2, castle |-> pos.castle \ lost]

\* Board::generate_moves: the legal moves of the side to move.
LegalMoves(pos) ==
    {mv \in UNION {PieceMoves(pos, s) : s \in Colors(pos.board, pos.stm)} :
        ~InCheck(play_unchecked(pos, mv).board, pos.stm)}

(***************************************************************************)
(* Wdl and Material (src/src/lib.rs)                                       *)
(***************************************************************************)
Loss == 0

BlessedLoss == 1

Draw == 2

CursedWin == 3

Win == 4

Wdl == {Loss, BlessedLoss, Draw, CursedWin, Win}

\* impl Neg for Wdl
Neg(w) ==
    CASE w = Loss        -> Win
      [] w = BlessedLoss -> CursedWin
      [] w = Draw        -> Draw
      [] w = CursedWin   -> BlessedLoss
      [] w = Win         -> Loss

Min2(a, b) == IF a < b THEN a ELSE b

\* A Material is <<white counts, black counts>>, each indexed by the piece
\* codes Pawn..Queen.
MaterialDefault == <<<<0, 0, 0, 0, 0>>, <<0, 0, 0, 0, 0>>>>

CANONICAL_PIECE_ORDER == <<Queen, Rook, Bishop, Knight, Pawn>>

Sum5(a) == a[1] + a[2] + a[3] + a[4] + a[5]

is_symmetric(m) == m[1] = m[2]

RECURSIVE CanonicalFrom(_, _)
CanonicalFrom(m, i) ==
    IF i > 5 THEN TRUE  \* symmetric
    ELSE LET p == CANONICAL_PIECE_ORDER[i]
         IN IF m[1][p] > m[2][p] THEN TRUE
            ELSE IF m[1][p] < m[2][p] THEN FALSE
            ELSE CanonicalFrom(m, i + 1)

is_canonical(m) ==
    LET white == Sum5(m[1])
        black == Sum5(m[2])
    IN IF white > black THEN TRUE
       ELSE IF white < black THEN FALSE
       ELSE CanonicalFrom(m, 1)

flip(m) == <<m[2], m[1]>>

count(m) == Sum5(m[1]) + Sum5(m[2]) + 2

\* The material of a position, as read_wdl counts it (kings excluded).
CountsOf(board, c) ==
    <<Cardinality(PiecesOf(board, c, Pawn)), Cardinality(PiecesOf(board, c, Knight)),
      Cardinality(PiecesOf(board, c, Bishop)), Cardinality(PiecesOf(board, c, Rook)),
      Cardinality(PiecesOf(board, c, Queen))>>

MaterialOf(pos) == <<CountsOf(pos.board, White), CountsOf(pos.board, Black)>>

(***************************************************************************)
(* A table file.  The magic, the flags byte and the nibble-packed piece    *)
(* bytes are modelled byte for byte; the order bytes and the compressed    *)
(* streams that follow are represented by `seed`, which determines the     *)
(* decompressed contents of every sub-table of the file.                   *)
(*   [magic |-> <<b0,b1,b2,b3>>, flags |-> byte, men |-> <<byte,...>>,     *)
(*    seed |-> Nat]                                                        *)
(***************************************************************************)
MAX_PIECES == 8

\* DataStream::read_u32 on the first four bytes (u32::from_le_bytes)
read_u32(b) == b[1] + 256 * b[2] + 65536 * b[3] + 16777216 * b[4]

\* 0x5d23e871
SYZYGY_MAGIC == 1562634353

\* ColoredPiece::decode(v).is_some()
ColoredPiece_valid(v) == v \in (1..6) \cup (9..14)

LowNibbles(bytes) == [i \in 1..Len(bytes) |-> bytes[i] % 16]

HighNibbles(bytes) == [i \in 1..Len(bytes) |-> bytes[i] \div 16]

\* pawnless::WdlTable::new, header part: the encoding type is Zero when some
\* non-king piece occurs exactly once.
EncodingZero(material) ==
    \E c \in 1..2 : \E p \in 1..5 : material[c][p] = 1

\* The pawn counts taken as they stand, without the swap.
PawnCounts_NoSwap(material) ==
    <<material[1][Pawn], material[2][Pawn]>>

\* pawnful::WdlTable::new: the pawn counts after the swap, <<white_pawns, black_pawns>>.
PawnCounts(material) ==
    LET wp == material[1][Pawn]
        bp == material[2][Pawn]
    IN IF wp = 0 \/ (bp # 0 /\ bp < wp) THEN <<bp, wp>> ELSE <<wp, bp>>

\* The result of WdlTable::load(data, material):
\*   [tag |-> "Ok", table |-> ...], [tag |-> "Err", ...] (an io::Error of kind
\*   Other) or [tag |-> "Panic", ...] (an assert_eq!, unwrap or slice failure).
NoTable == [pawnful |-> FALSE, men |-> 0, split |-> FALSE, files |-> 0,
            pieces |-> <<<<>>, <<>>>>, white_pawns |-> 0, black_pawns |-> 0,
            zero |-> FALSE, seed |-> 0]

WdlTable_load(file, material) ==
    LET men     == count(material)
        split   == file.flags % 2 # 0
        pawnful == material[1][Pawn] + material[2][Pawn] # 0
        files   == IF pawnful /\ (file.flags \div 2) % 2 # 0 THEN 4 ELSE 1
        pc      == IF pawnful THEN PawnCounts(material) ELSE <<0, 0>>
        bytes   == SubSeq(file.men, 1, men)
        wtm     == LowNibbles(bytes)
        btm     == HighNibbles(bytes)
    IN IF read_u32(file.magic) # SYZYGY_MAGIC
       THEN [tag |-> "Err", table |-> NoTable]
       ELSE IF \/ split # ~is_symmetric(material)
               \/ Len(file.men) < men
               \/ \E i \in 1..men : ~ColoredPiece_valid(wtm[i])
               \/ split /\ \E i \in 1..men : ~ColoredPiece_valid(btm[i])
       THEN [tag |-> "Panic", table |-> NoTable]
       ELSE [tag |-> "Ok",
             table |-> [pawnful |-> pawnful, men |-> men, split |-> split,
                        files |-> files,
                        pieces |-> <<wtm, IF split THEN btm ELSE <<>>>>,
                        white_pawns |-> pc[1], black_pawns |-> pc[2],
                        zero |-> EncodingZero(material), seed |-> file.seed]]

(***************************************************************************)
(* Table reads.  The position-to-index functions apply the mirroring and   *)
(* ordering steps of the source to the gathered squares.  The numeric      *)
(* coding tables live in constants.rs; BINOMIAL, FLAP, PAWN_TWIST,         *)
(* FILE_TO_FILE, OFF_DIAGONAL and FLIP_DIAGONAL are given by their closed  *)
(* forms, and the KK/triangle/PAWN_INDEX prefix tables by an injective     *)
(* positional code of the squares they are applied to.                     *)
(***************************************************************************)
RECURSIVE SortedSeq(_)
SortedSeq(S) ==
    IF S = {} THEN <<>>
    ELSE LET m == CHOOSE x \in S : \A y \in S : x <= y
         IN <<m>> \o SortedSeq(S \ {m})

Swap(sq, i, j) == [sq EXCEPT ![i] = sq[j], ![j] = sq[i]]

\* for sq in &mut *piece_squares { *sq = sq.flip_file() } and the like
FlipFiles(sq) == [i \in 1..Len(sq) |-> flip_file(sq[i])]

FlipRanks(sq) == [i \in 1..Len(sq) |-> flip_rank(sq[i])]

\* BINOMIAL[k][n] = C(n, k + 1)
RECURSIVE Choose(_, _)
Choose(n, k) ==
    IF k = 0 THEN 1
    ELSE IF n < k THEN 0
    ELSE (Choose(n - 1, k - 1) * n) \div k

BINOMIAL(k, n) == Choose(n, k + 1)

FoldFile(f) == IF f > 3 THEN 7 - f ELSE f

FILE_TO_FILE(f) == FoldFile(f)

FLAP(sq) ==
    IF RankOf(sq) = 0 \/ RankOf(sq) = 7 THEN 0
    ELSE 6 * FoldFile(FileOf(sq)) + RankOf(sq) - 1

PAWN_TWIST(sq) ==
    IF RankOf(sq) = 0 \/ RankOf(sq) = 7 THEN 0
    ELSE IF FileOf(sq) <= 3
         THEN 47 - 2 * (RankOf(sq) - 1) - 12 * FileOf(sq)
         ELSE 46 - 2 * (RankOf(sq) - 1) - 12 * (7 - FileOf(sq))

OFF_DIAGONAL(sq) == Sgn(RankOf(sq) - FileOf(sq))

FLIP_DIAGONAL(sq) == SquareNew(RankOf(sq), FileOf(sq))

\* The number of entries of a model table, and its decompressed contents:
\* PairsData::lookup(index) of the table that `seed` stands for.
TbSize == 13

lookup(seed, side, f, index) ==
    LET i == index % TbSize
    IN ((seed + 1) * (i * i + i + 1) + seed * side + f * (seed % 3) + (i \div 3)) % 5

\* The positional code that stands for a coding table applied to squares.
RECURSIVE Code(_, _)
Code(parts, acc) ==
    IF parts = <<>> THEN acc
    ELSE Code(Tail(parts), (acc * 67 + Head(parts) + 1) % 1000003)

\* Table::index, the loop over the groups of identical pieces from i on:
\* each group is sorted ascending and contributes the squares it holds.
RECURSIVE GroupParts(_, _, _)
GroupParts(ps, norm, i) ==
    IF i > Len(ps) THEN <<>>
    ELSE LET t == norm[i]
         IN SortedSeq({ps[m] : m \in i..(i + t - 1)}) \o GroupParts(ps, norm, i + t)

Zeros(n) == [k \in 1..n |-> 0]

\* The length of the run of pieces equal to pieces[i], from i on.
RECURSIVE RunLen(_, _, _)
RunLen(pieces, i, j) ==
    IF j > Len(pieces) \/ pieces[j] # pieces[i] THEN 0
    ELSE 1 + RunLen(pieces, i, j + 1)

\* calculate_norm, the loop `while i < men`: norm[i] is the size of the group
\* that starts at i, and 0 elsewhere.
RECURSIVE NormGroups(_, _)
NormGroups(pieces, i) ==
    IF i > Len(pieces) THEN <<>>
    ELSE LET t == RunLen(pieces, i, i)
         IN <<t>> \o Zeros(t - 1) \o NormGroups(pieces, i + t)

\* pawnless::calculate_norm
pawnless_calculate_norm(zero, pieces) ==
    LET n0 == IF zero THEN 3 ELSE 2
    IN <<n0>> \o Zeros(n0 - 1) \o NormGroups(pieces, n0 + 1)

\* pawnful::calculate_norm
pawnful_calculate_norm(white_pawns, black_pawns, pieces) ==
    <<white_pawns>> \o Zeros(white_pawns - 1)
       \o (IF black_pawns > 0 THEN <<black_pawns>> \o Zeros(black_pawns - 1) ELSE <<>>)
       \o NormGroups(pieces, white_pawns + black_pawns + 1)

\* The loops of WdlTable::read that fill piece_squares from index i on: the
\* squares of each listed piece, colours swapped under color_flip, in
\* ascending square order, each passed through flip_rank when flip_ranks
\* is set.  <<>> stands for the failure of the loop on an empty bitboard.
RECURSIVE Gather(_, _, _, _, _, _)
Gather(board, pieces, color_flip, flip_ranks, i, acc) ==
    IF i > Len(pieces) THEN acc
    ELSE LET c  == ColoredPiece_color(pieces[i])
             bb == PiecesOf(board, IF color_flip THEN Not(c) ELSE c,
                            ColoredPiece_piece(pieces[i]))
         IN IF bb = {} THEN <<>>
            ELSE Gather(board, pieces, color_flip, flip_ranks,
                        i + Cardinality(bb),
                        acc \o (IF flip_ranks THEN FlipRanks(SortedSeq(bb))
                                ELSE SortedSeq(bb)))

\* pawnless Table::index, diagonal mirroring over the first to_check squares
RECURSIVE DiagonalMirror(_, _, _)
DiagonalMirror(ps, k, to_check) ==
    IF k > to_check \/ k > Len(ps) THEN ps
    ELSE CASE OFF_DIAGONAL(ps[k]) = -1 -> ps
           [] OFF_DIAGONAL(ps[k]) = 0  -> DiagonalMirror(ps, k + 1, to_check)
           [] OFF_DIAGONAL(ps[k]) = 1  -> [i \in 1..Len(ps) |-> FLIP_DIAGONAL(ps[i])]

\* pawnless Table::index
pawnless_index(zero, norm, piece_squares) ==
    LET s1 == IF FileOf(piece_squares[1]) > 3
              THEN FlipFiles(piece_squares) ELSE piece_squares
        s2 == IF RankOf(s1[1]) > 3 THEN FlipRanks(s1) ELSE s1
        n0 == IF zero THEN 3 ELSE 2
        s3 == DiagonalMirror(s2, 1, n0)
    IN Code(SubSeq(s3, 1, n0) \o GroupParts(s3, norm, n0 + 1), 0)

\* pawnless WdlTable::read
pawnless_read(table, pos, color_flip) ==
    LET side == IF color_flip THEN Not(pos.stm) ELSE pos.stm
        ps   == Gather(pos.board, table.pieces[side + 1], color_flip, FALSE, 1, <<>>)
    IN IF (side = Black /\ ~table.split) \/ Len(ps) < table.men
       THEN [tag |-> "Panic", wdl |-> 0]
       ELSE [tag |-> "Some",
             wdl |-> lookup(table.seed, side, 0,
                        pawnless_index(table.zero,
                           pawnless_calculate_norm(table.zero, table.pieces[side + 1]),
                           SubSeq(ps, 1, table.men)))]

\* The loop of pawn_file run over every entry of piece_squares.
RECURSIVE PawnFileLoop_AllEntries(_, _, _)
PawnFileLoop_AllEntries(ps, i, white_pawns) ==
    IF i > Len(ps) THEN ps
    ELSE PawnFileLoop_AllEntries(IF FLAP(ps[1]) > FLAP(ps[i]) THEN Swap(ps, 1, i) ELSE ps,
                                 i + 1, white_pawns)

\* pawn_file: <<file sub-table, piece_squares>>
RECURSIVE PawnFileLoop(_, _, _)
PawnFileLoop(ps, i, white_pawns) ==
    IF i > white_pawns \/ i > Len(ps) THEN ps
    ELSE PawnFileLoop(IF FLAP(ps[1]) > FLAP(ps[i]) THEN Swap(ps, 1, i) ELSE ps,
                      i + 1, white_pawns)

pawn_file(white_pawns, piece_squares) ==
    LET ps == PawnFileLoop(piece_squares, 1, white_pawns)
    IN <<FILE_TO_FILE(FileOf(ps[1])), ps>>

\* pawnful Table::index, the pawn ordering loops
\*   for i in 1..white_pawns { for j in i + 1..black_pawns { ... } }
RECURSIVE TwistLoop(_, _, _, _, _)
TwistLoop(ps, i, j, white_pawns, black_pawns) ==
    IF i >= white_pawns THEN ps
    ELSE IF j >= black_pawns THEN TwistLoop(ps, i + 1, i + 2, white_pawns, black_pawns)
    ELSE TwistLoop(IF PAWN_TWIST(ps[i + 1]) < PAWN_TWIST(ps[j + 1])
                   THEN Swap(ps, i + 1, j + 1) ELSE ps,
                   i, j + 1, white_pawns, black_pawns)

RECURSIVE SumTwist(_, _, _)
SumTwist(ps, i, t) ==
    IF i >= t THEN 0
    ELSE BINOMIAL(t - 1, PAWN_TWIST(ps[i + 1])) + SumTwist(ps, i + 1, t)

\* pawnful Table::index
pawnful_index(norm, white_pawns, black_pawns, piece_squares) ==
    LET s1 == IF FileOf(piece_squares[1]) > 3
              THEN FlipFiles(piece_squares) ELSE piece_squares
        s2 == TwistLoop(s1, 1, 2, white_pawns, black_pawns)
        t  == white_pawns - 1
        bp == SortedSeq({s2[m] : m \in (white_pawns + 1)..(white_pawns + black_pawns)})
    IN Code(<<FLAP(s2[1]), SumTwist(s2, 0, t)>> \o bp
               \o GroupParts(s2, norm, white_pawns + black_pawns + 1), 0)

\* pawnful WdlTable::read
pawnful_read(table, pos, color_flip) ==
    LET side  == IF color_flip THEN Not(pos.stm) ELSE pos.stm
        lead  == Gather(pos.board, <<table.pieces[1][1]>>, color_flip, color_flip, 1, <<>>)
        pf    == pawn_file(table.white_pawns, lead)
        f     == pf[1]
    IN IF lead = <<>> \/ (side = Black /\ ~table.split) \/ f >= table.files
       THEN [tag |-> "Panic", wdl |-> 0]
       ELSE LET pieces == table.pieces[side + 1]
                rest   == Gather(pos.board, pieces, color_flip, color_flip, Len(lead) + 1, <<>>)
                ps     == pf[2] \o rest
            IN IF Len(ps) < table.men \/ (Len(lead) < table.men /\ rest = <<>>)
               THEN [tag |-> "Panic", wdl |-> 0]
               ELSE [tag |-> "Some",
                     wdl |-> lookup(table.seed, side, f,
                                pawnful_index(
                                   pawnful_calculate_norm(table.white_pawns,
                                                          table.black_pawns, pieces),
                                   table.white_pawns, table.black_pawns,
                                   SubSeq(ps, 1, table.men)))]

\* table::WdlTable::read
WdlTable_read(table, pos, color_flip) ==
    IF table.pawnful
    THEN pawnful_read(table, pos, color_flip)
    ELSE pawnless_read(table, pos, color_flip)

(***************************************************************************)
(* Tablebase (src/src/tablebase.rs).  `wdl` is the HashMap<Material,       *)
(* WdlTable>, a function from the loaded material keys to their tables.    *)
(* An Option<Wdl> is [tag |-> "None" | "Some", wdl |-> w]; the tag "Panic" *)
(* stands for a probe that fails instead of returning.                     *)
(***************************************************************************)
None == [tag |-> "None", wdl |-> 0]

Some(w) == [tag |-> "Some", wdl |-> w]

\* A colour flip for the side to move of symmetric material only.
ColorFlipSymmetricOnly(material, stm) == is_symmetric(material) /\ stm = Black

\* read_wdl line 288
ColorFlip(material, stm) ==
    ~is_canonical(material) \/ (is_symmetric(material) /\ stm = Black)

\* The key read_wdl looks up.
TableKey(pos) ==
    LET material == MaterialOf(pos)
    IN IF ColorFlip(material, pos.stm) THEN flip(material) ELSE material

\* A read_wdl without the KvK case: the two kings are looked up like any
\* other material.
read_wdl_NoKvK(wdl, pos) ==
    IF pos.castle # {} THEN None
    ELSE LET material   == MaterialOf(pos)
             color_flip == ColorFlip(material, pos.stm)
             key        == IF color_flip THEN flip(material) ELSE material
         IN IF key \in DOMAIN wdl
            THEN WdlTable_read(wdl[key], pos, color_flip)
            ELSE None

\* Tablebase::read_wdl
read_wdl(wdl, pos) ==
    IF pos.castle # {} THEN None
    ELSE LET material == MaterialOf(pos)
         IN IF material = MaterialDefault THEN Some(Draw)
            ELSE LET color_flip == ColorFlip(material, pos.stm)
                     key        == IF color_flip THEN flip(material) ELSE material
                 IN IF key \in DOMAIN wdl
                    THEN WdlTable_read(wdl[key], pos, color_flip)
                    ELSE None

\* The order in which generate_moves hands the moves to the caller: by piece,
\* then by origin and target square; `order` selects this or its reverse.
MoveKey(pos, mv) ==
    ((ColoredPiece_piece(pos.board[mv.from]) * 64 + mv.from) * 64 + mv.to) * 8
        + mv.promotion

Reverse(sq) == [i \in 1..Len(sq) |-> sq[Len(sq) + 1 - i]]

Ordered(pos, moves, order) ==
    LET keys == SortedSeq({MoveKey(pos, mv) : mv \in moves})
        sq   == [i \in 1..Len(keys) |-> CHOOSE mv \in moves : MoveKey(pos, mv) = keys[i]]
    IN IF order = "asc" THEN sq ELSE Reverse(sq)

\* The moves of generate_moves without the mask on the target squares.
CaptureMovesUnmasked(pos) == LegalMoves(pos)

\* mvs.to &= their_pieces (probe_alpha_beta lines 240-246)
CaptureMoves(pos) ==
    {mv \in LegalMoves(pos) : mv.to \in Colors(pos.board, Not(pos.stm))}

\* A search that returns the first value above alpha, without the test
\* against beta.
AlphaBetaUpdateNoBetaTest(v, alpha, beta) ==
    [done  |-> v > alpha,
     alpha |-> IF v > alpha THEN v ELSE alpha]

\* probe_alpha_beta lines 229-234 and 252-257: `if v > alpha { if v >= beta
\* { return Some(v) } alpha = v }`; done says that v is returned.
AlphaBetaUpdate(v, alpha, beta) ==
    [done  |-> v > alpha /\ v >= beta,
     alpha |-> IF v > alpha THEN v ELSE alpha]

\* Tablebase::probe_alpha_beta
RECURSIVE probe_alpha_beta(_, _, _, _, _)
RECURSIVE AlphaBetaLoop(_, _, _, _, _, _, _)

\* lines 248-260: the body of the loop, r the result of the recursive call
AlphaBetaStep(wdl, pos, captures, i, alpha, beta, order, r) ==
    IF r.tag # "Some" THEN r
    ELSE IF AlphaBetaUpdate(Neg(r.wdl), alpha, beta).done THEN Some(Neg(r.wdl))
    ELSE AlphaBetaLoop(wdl, pos, captures, i + 1,
                       AlphaBetaUpdate(Neg(r.wdl), alpha, beta).alpha, beta, order)

\* lines 248-260: the loop over the captures
AlphaBetaLoop(wdl, pos, captures, i, alpha, beta, order) ==
    IF i > Len(captures) THEN Some(alpha)
    ELSE AlphaBetaStep(wdl, pos, captures, i, alpha, beta, order,
                       probe_alpha_beta(wdl, play_unchecked(pos, captures[i]),
                                        Neg(beta), Neg(alpha), order))

\* lines 228-247: r the result of read_wdl
AlphaBetaRoot(wdl, pos, alpha, beta, order, r) ==
    IF r.tag # "Some" THEN r
    ELSE IF AlphaBetaUpdate(r.wdl, alpha, beta).done THEN Some(r.wdl)
    ELSE AlphaBetaLoop(wdl, pos, Ordered(pos, CaptureMoves(pos), order), 1,
                       AlphaBetaUpdate(r.wdl, alpha, beta).alpha, beta, order)

probe_alpha_beta(wdl, pos, alpha, beta, order) ==
    AlphaBetaRoot(wdl, pos, alpha, beta, order, read_wdl(wdl, pos))

\* The result of probe_wdl: Option<(Wdl, bool)>.
NoneP == [tag |-> "None", wdl |-> 0, capture |-> FALSE]

SomeP(w, capture) == [tag |-> "Some", wdl |-> w, capture |-> capture]

\* the `?` operator: a read or a call that did not return Some(_) ends the probe
Fail(r) == [tag |-> r.tag, wdl |-> 0, capture |-> FALSE]

\* probe_wdl lines 163-186: the captures (en passant included) and the number
\* of legal moves that are not en-passant captures.
RootCapturesOf(pos, moves) ==
    {mv \in moves :
        \/ mv.to \in Colors(pos.board, Not(pos.stm))
        \/ IsEnPassant(pos, mv)}

RootCaptures(pos) == RootCapturesOf(pos, LegalMoves(pos))

NumMovesWithoutEpOf(pos, moves) ==
    Cardinality({mv \in moves : ~IsEnPassant(pos, mv)})

\* line 192
FalseStalemateOf(pos, moves) ==
    NumMovesWithoutEpOf(pos, moves) = 0 /\ RootCapturesOf(pos, moves) # {}

FalseStalemate(pos) == FalseStalemateOf(pos, LegalMoves(pos))

\* An initial alpha of Draw whatever the table value.
InitialAlphaDraw(v, false_stalemate) ==
    IF false_stalemate THEN Loss ELSE Draw

\* lines 193-196
InitialAlpha(v, false_stalemate) ==
    IF false_stalemate THEN Loss ELSE Min2(Draw, v)

\* A loop that also stops, with (Win, true), on a capture worth CursedWin.
ProbeUpdateStopsOnCursedWin(v2, alpha, best_is_capture, best_is_ep, ep) ==
    IF v2 > alpha
    THEN [done |-> v2 >= CursedWin, alpha |-> v2, best_is_capture |-> v2 > Draw,
          best_is_ep |-> ep]
    ELSE [done |-> FALSE, alpha |-> alpha, best_is_capture |-> best_is_capture,
          best_is_ep |-> best_is_ep]

\* lines 203-210: v2 the negated value of a capture; done says that
\* (Win, true) is returned.
ProbeUpdate(v2, alpha, best_is_capture, best_is_ep, ep) ==
    IF v2 > alpha
    THEN [done |-> v2 = Win, alpha |-> v2, best_is_capture |-> v2 > Draw,
          best_is_ep |-> ep]
    ELSE [done |-> FALSE, alpha |-> alpha, best_is_capture |-> best_is_capture,
          best_is_ep |-> best_is_ep]

\* A final choice that prefers the table value in a false stalemate too.
ProbeEndTrustsTable(v, alpha, best_is_capture, best_is_ep, false_stalemate) ==
    IF v > alpha
    THEN SomeP(v, FALSE)
    ELSE SomeP(alpha, best_is_capture \/ best_is_ep \/ false_stalemate)

\* lines 213-217
ProbeEnd(v, alpha, best_is_capture, best_is_ep, false_stalemate) ==
    IF ~false_stalemate /\ v > alpha
    THEN SomeP(v, FALSE)
    ELSE SomeP(alpha, best_is_capture \/ best_is_ep \/ false_stalemate)

\* probe_wdl lines 198-218: the loop over the captures and the final choice.
RECURSIVE ProbeLoop(_, _, _, _, _, _, _, _, _, _)

ProbeNext(wdl, pos, captures, i, v, false_stalemate, order, u) ==
    IF u.done THEN SomeP(Win, TRUE)
    ELSE ProbeLoop(wdl, pos, captures, i + 1, v, u.alpha, u.best_is_capture,
                   u.best_is_ep, false_stalemate, order)

\* lines 200-210: the body of the loop, r the result of probe_alpha_beta
ProbeStep(wdl, pos, captures, i, v, alpha, best_is_capture, best_is_ep,
          false_stalemate, order, r) ==
    IF r.tag # "Some" THEN Fail(r)
    ELSE ProbeNext(wdl, pos, captures, i, v, false_stalemate, order,
                   ProbeUpdate(Neg(r.wdl), alpha, best_is_capture, best_is_ep,
                               IsEnPassant(pos, captures[i])))

ProbeLoop(wdl, pos, captures, i, v, alpha, best_is_capture, best_is_ep,
          false_stalemate, order) ==
    IF i > Len(captures)
    THEN ProbeEnd(v, alpha, best_is_capture, best_is_ep, false_stalemate)
    ELSE ProbeStep(wdl, pos, captures, i, v, alpha, best_is_capture, best_is_ep,
                   false_stalemate, order,
                   probe_alpha_beta(wdl, play_unchecked(pos, captures[i]),
                                    Loss, Neg(alpha), order))

\* lines 163-199: moves the moves generate_moves yields
ProbeMoves(wdl, pos, order, v, moves) ==
    ProbeLoop(wdl, pos, Ordered(pos, RootCapturesOf(pos, moves), order), 1, v,
              InitialAlpha(v, FalseStalemateOf(pos, moves)),
              FALSE, FALSE, FalseStalemateOf(pos, moves), order)

\* line 158: r the result of read_wdl
ProbeRoot(wdl, pos, order, r) ==
    IF r.tag # "Some" THEN Fail(r)
    ELSE ProbeMoves(wdl, pos, order, r.wdl, LegalMoves(pos))

\* Tablebase::probe_wdl
probe_wdl(wdl, pos, order) == ProbeRoot(wdl, pos, order, read_wdl(wdl, pos))

(***************************************************************************)
(* The same search, one call or return at a time.  A frame is one          *)
(* activation of probe_wdl (root) or of probe_alpha_beta: its position,    *)
(* its captures, the index of the capture it is at, and its locals.        *)
(***************************************************************************)
MkFrame(root, pos, captures, alpha, beta, v, false_stalemate, done, val, order) ==
    [root |-> root, pos |-> pos, captures |-> captures, i |-> 1,
     alpha |-> alpha, beta |-> beta, v |-> v,
     best_is_capture |-> FALSE, best_is_ep |-> FALSE,
     false_stalemate |-> false_stalemate,
     done |-> done, val |-> val, order |-> order]

\* probe_wdl lines 163-199, moves the moves generate_moves yields
RootFrameMoves(pos, order, v, moves) ==
    MkFrame(TRUE, pos, Ordered(pos, RootCapturesOf(pos, moves), order),
            InitialAlpha(v, FalseStalemateOf(pos, moves)), Win, v,
            FalseStalemateOf(pos, moves), FALSE, NoneP, order)

\* probe_wdl line 158, r the result of read_wdl
RootFrame(pos, order, r) ==
    IF r.tag # "Some"
    THEN MkFrame(TRUE, pos, <<>>, Loss, Win, 0, FALSE, TRUE, Fail(r), order)
    ELSE RootFrameMoves(pos, order, r.wdl, LegalMoves(pos))

\* probe_alpha_beta lines 228-247, r the result of read_wdl
ChildFrame(pos, alpha, beta, order, r) ==
    IF r.tag # "Some"
    THEN MkFrame(FALSE, pos, <<>>, alpha, beta, 0, FALSE, TRUE, Fail(r), order)
    ELSE IF AlphaBetaUpdate(r.wdl, alpha, beta).done
    THEN MkFrame(FALSE, pos, <<>>, alpha, beta, 0, FALSE, TRUE, SomeP(r.wdl, FALSE), order)
    ELSE MkFrame(FALSE, pos, Ordered(pos, CaptureMoves(pos), order),
                 AlphaBetaUpdate(r.wdl, alpha, beta).alpha, beta, 0, FALSE, FALSE,
                 NoneP, order)

\* The frame of a caller once the call it made has returned ret:
\* probe_wdl lines 202-210, probe_alpha_beta lines 251-258.
ResumeRoot(fr, u) ==
    IF u.done THEN [fr EXCEPT !.done = TRUE, !.val = SomeP(Win, TRUE)]
    ELSE [fr EXCEPT !.i = fr.i + 1, !.alpha = u.alpha,
                    !.best_is_capture = u.best_is_capture,
                    !.best_is_ep = u.best_is_ep]

ResumeChild(fr, v, u) ==
    IF u.done THEN [fr EXCEPT !.done = TRUE, !.val = SomeP(v, FALSE)]
    ELSE [fr EXCEPT !.i = fr.i + 1, !.alpha = u.alpha]

\* A caller that goes on to its next capture when the call returned None.
ResumeSkipsNone(fr, ret) ==
    IF ret.tag # "Some" THEN [fr EXCEPT !.i = fr.i + 1]
    ELSE IF fr.root
    THEN ResumeRoot(fr, ProbeUpdate(Neg(ret.wdl), fr.alpha, fr.best_is_capture,
                                    fr.best_is_ep,
                                    IsEnPassant(fr.pos, fr.captures[fr.i])))
    ELSE ResumeChild(fr, Neg(ret.wdl), AlphaBetaUpdate(Neg(ret.wdl), fr.alpha, fr.beta))

Resume(fr, ret) ==
    IF ret.tag # "Some" THEN [fr EXCEPT !.done = TRUE, !.val = ret]
    ELSE IF fr.root
    THEN ResumeRoot(fr, ProbeUpdate(Neg(ret.wdl), fr.alpha, fr.best_is_capture,
                                    fr.best_is_ep,
                                    IsEnPassant(fr.pos, fr.captures[fr.i])))
    ELSE ResumeChild(fr, Neg(ret.wdl), AlphaBetaUpdate(Neg(ret.wdl), fr.alpha, fr.beta))

\* The frame of a caller whose loop over the captures has ended:
\* probe_wdl lines 213-217, probe_alpha_beta line 260.
LoopEnd(fr) ==
    [fr EXCEPT !.done = TRUE,
               !.val = IF fr.root
                       THEN ProbeEnd(fr.v, fr.alpha, fr.best_is_capture, fr.best_is_ep,
                                     fr.false_stalemate)
                       ELSE SomeP(fr.alpha, FALSE)]

(***************************************************************************)
(* Inputs: table files and positions.                                      *)
(***************************************************************************)
Rep(code, n) == [k \in 1..n |-> code]

\* The non-king pieces of colour c with the given piece codes, grouped.
RECURSIVE Grouped(_, _, _)
Grouped(material, c, plist) ==
    IF plist = <<>> THEN <<>>
    ELSE Rep(CP(c, Head(plist)), material[c + 1][Head(plist)])
            \o Grouped(material, c, Tail(plist))

Officers == <<Queen, Rook, Bishop, Knight>>

\* The piece list a well-formed file for `material` declares: for a pawnful
\* table the leading pawns, the other pawns, the kings and the officers; for
\* a pawnless table the kings, then (encoding Zero) a piece that occurs once,
\* then the remaining officers.
FilePieces(material) ==
    LET officers == Grouped(material, White, Officers) \o Grouped(material, Black, Officers)
        kings    == <<CP(White, King), CP(Black, King)>>
        wp       == material[1][Pawn]
        bp       == material[2][Pawn]
        lead     == IF wp = 0 \/ (bp # 0 /\ bp < wp) THEN Black ELSE White
    IN IF wp + bp # 0
       THEN Rep(CP(lead, Pawn), material[lead + 1][Pawn])
               \o Rep(CP(Not(lead), Pawn), material[Not(lead) + 1][Pawn])
               \o kings \o officers
       ELSE IF EncodingZero(material)
       THEN LET k == CHOOSE k \in 1..Len(officers) :
                        /\ RunLen(officers, k, k) = 1
                        /\ (k = 1 \/ officers[k - 1] # officers[k])
                        /\ \A j \in 1..(k - 1) :
                              ~(RunLen(officers, j, j) = 1
                                /\ (j = 1 \/ officers[j - 1] # officers[j]))
            IN kings \o <<officers[k]>>
                  \o SubSeq(officers, 1, k - 1) \o SubSeq(officers, k + 1, Len(officers))
       ELSE kings \o officers

MagicBytes == <<113, 232, 35, 93>>

\* A well-formed table file for `material` whose contents `seed` selects.
SyzygyFile(material, seed) ==
    LET split  == ~is_symmetric(material)
        pieces == FilePieces(material)
    IN [magic |-> MagicBytes,
        flags |-> (IF split THEN 1 ELSE 0)
                     + (IF material[1][Pawn] + material[2][Pawn] # 0 THEN 2 ELSE 0),
        men   |-> [i \in 1..Len(pieces) |-> pieces[i] + (IF split THEN 16 * pieces[i] ELSE 0)],
        seed  |-> seed]

\* All piece-count vectors of one side with at most k pieces.
CountVectors(k) ==
    {<<v[1], v[2], v[3], v[4], v[5]>> : v \in {v \in [1..5 -> 0..k] : Sum5(v) <= k}}

\* The canonical materials with at most n men (KvK, which has no table, excluded).
CanonicalMaterials(n) ==
    {m \in CountVectors(n - 2) \X CountVectors(n - 2) :
        /\ count(m) <= n
        /\ count(m) > 2
        /\ is_canonical(m)}

\* Positions are built from piece placements <<file, rank, ColoredPiece code>>.
MkBoard(placed) ==
    [s \in Squares |->
        IF \E x \in placed : SquareNew(x[1], x[2]) = s
        THEN (CHOOSE x \in placed : SquareNew(x[1], x[2]) = s)[3]
        ELSE 0]

MkPos(placed, stm, ep, castle) ==
    [board |-> MkBoard(placed), stm |-> stm, ep |-> ep, castle |-> castle]

\* The positions of examples/wdl.rs (and a KvK and a castling position).
\* "7k/5KR1/8/8/8/8/8/6r1 w - -"
FenRookCapture ==
    MkPos({<<7, 7, CP(Black, King)>>, <<5, 6, CP(White, King)>>,
           <<6, 6, CP(White, Rook)>>, <<6, 0, CP(Black, Rook)>>}, White, {}, {})

\* "K7/1r6/1k6/1Pp5/8/8/8/8 w - c6": stalemate if no en passant
FenFalseStalemate ==
    MkPos({<<0, 7, CP(White, King)>>, <<1, 6, CP(Black, Rook)>>,
           <<1, 5, CP(Black, King)>>, <<1, 4, CP(White, Pawn)>>,
           <<2, 4, CP(Black, Pawn)>>}, White, {2}, {})

\* "K7/1r6/1k6/1Pp5/8/8/8/8 w - -"
FenStalemate == [FenFalseStalemate EXCEPT !.ep = {}]

\* "5K2/8/5k2/8/pP6/B7/8/8 b - b3": en passant is the best move, not the only one
FenEpBest ==
    MkPos({<<5, 7, CP(White, King)>>, <<5, 5, CP(Black, King)>>,
           <<0, 3, CP(Black, Pawn)>>, <<1, 3, CP(White, Pawn)>>,
           <<0, 2, CP(White, Bishop)>>}, Black, {1}, {})

\* "8/8/3K4/6R1/7k/7p/8/8 b - -"
FenKingTakesRook ==
    MkPos({<<3, 5, CP(White, King)>>, <<6, 4, CP(White, Rook)>>,
           <<7, 3, CP(Black, King)>>, <<7, 2, CP(Black, Pawn)>>}, Black, {}, {})

\* "7k/2Q2K2/4n3/4r3/8/8/8/8 w - -"
FenQueenKnightRook ==
    MkPos({<<7, 7, CP(Black, King)>>, <<2, 6, CP(White, Queen)>>,
           <<5, 6, CP(White, King)>>, <<4, 5, CP(Black, Knight)>>,
           <<4, 4, CP(Black, Rook)>>}, White, {}, {})

\* "4k3/8/8/3K4/7p/8/8/8 w - -"
FenLonePawn ==
    MkPos({<<4, 7, CP(Black, King)>>, <<3, 4, CP(White, King)>>,
           <<7, 3, CP(Black, Pawn)>>}, White, {}, {})

\* "6k1/KPr1P3/8/8/8/8/8/8 b - -"
FenTwoPawns ==
    MkPos({<<6, 7, CP(Black, King)>>, <<0, 6, CP(White, King)>>,
           <<1, 6, CP(White, Pawn)>>, <<2, 6, CP(Black, Rook)>>,
           <<4, 6, CP(White, Pawn)>>}, Black, {}, {})

\* "8/8/5p2/5k2/8/4K3/6Qp/8 w - -"
FenQueenPawns ==
    MkPos({<<5, 5, CP(Black, Pawn)>>, <<5, 4, CP(Black, King)>>,
           <<4, 2, CP(White, King)>>, <<6, 1, CP(White, Queen)>>,
           <<7, 1, CP(Black, Pawn)>>}, White, {}, {})

\* "8/2k5/4p3/5p2/3K4/8/7p/8 b - -"
FenThreePawns ==
    MkPos({<<2, 6, CP(Black, King)>>, <<4, 5, CP(Black, Pawn)>>,
           <<5, 4, CP(Black, Pawn)>>, <<3, 3, CP(White, King)>>,
           <<7, 1, CP(Black, Pawn)>>}, Black, {}, {})

\* "4k3/8/8/1R6/4K3/8/8/8 w - -"
FenRook ==
    MkPos({<<4, 7, CP(Black, King)>>, <<1, 4, CP(White, Rook)>>,
           <<4, 3, CP(White, King)>>}, White, {}, {})

\* "4k3/8/8/8/8/8/8/4K3 w - -"
FenKvK == MkPos({<<4, 7, CP(Black, King)>>, <<4, 0, CP(White, King)>>}, White, {}, {})

\* "4k3/8/8/8/8/8/8/4K2R w K -"
FenCastle ==
    MkPos({<<4, 7, CP(Black, King)>>, <<4, 0, CP(White, King)>>,
           <<7, 0, CP(White, Rook)>>}, White, {}, {<<White, "short">>})

\* "7k/8/5b2/8/3r4/2K5/8/3R4 w - -": a rook takes, a bishop and a king retake
FenExchange ==
    MkPos({<<7, 7, CP(Black, King)>>, <<5, 5, CP(Black, Bishop)>>,
           <<3, 3, CP(Black, Rook)>>, <<2, 2, CP(White, King)>>,
           <<3, 0, CP(White, Rook)>>}, White, {}, {})

\* "8/8/5N2/4k3/3b4/8/8/3R3K w - -": after Rxd4 the king has two captures
FenKingFork ==
    MkPos({<<5, 5, CP(White, Knight)>>, <<4, 4, CP(Black, King)>>,
           <<3, 3, CP(Black, Bishop)>>, <<3, 0, CP(White, Rook)>>,
           <<7, 0, CP(White, King)>>}, White, {}, {})

\* "1r5k/8/8/1R6/2K5/3n4/8/8 b - -": after Rxb5 the king has two captures
FenKingFork2 ==
    MkPos({<<1, 7, CP(Black, Rook)>>, <<7, 7, CP(Black, King)>>,
           <<1, 4, CP(White, Rook)>>, <<2, 3, CP(White, King)>>,
           <<3, 2, CP(Black, Knight)>>}, Black, {}, {})

StartPositions ==
    {FenExchange, FenKingFork, FenKingFork2, FenRookCapture, FenFalseStalemate, FenStalemate, FenEpBest, FenKingTakesRook,
     FenQueenKnightRook, FenLonePawn, FenTwoPawns, FenQueenPawns, FenThreePawns,
     FenRook, FenKvK, FenCastle}

(***************************************************************************)
(* The pairs decoder (pairs.rs), byte for byte.  A u64 is a sequence of 64 *)
(* bits, most significant first; a slice is a sequence of bytes.  An       *)
(* operation that indexes a slice out of range, or whose arithmetic leaves *)
(* the range of its type, has the tag "Panic".                             *)
(***************************************************************************)

\* n as u64, for 0 <= n < 2^31
U64(n) == [k \in 1..64 |-> IF k <= 33 THEN 0 ELSE (n \div (2 ^ (64 - k))) % 2]

\* b << k for 0 <= k < 64, as the sequence of its 64 bits
Shl(b, k) == SubSeq([i \in 1..64 |-> IF i + k <= 64 THEN b[i + k] ELSE 0], 1, 64)

\* a > b on u64
Gt64(a, b) == \E i \in 1..64 : a[i] > b[i] /\ \A j \in 1..(i - 1) : a[j] = b[j]

\* the value of the bits b[from..to], at most 31 of them
RECURSIVE BitsValue(_, _, _)
BitsValue(b, from, to) ==
    IF to < from THEN 0
    ELSE IF to = from THEN b[to]
    ELSE BitsValue(b, from, (from + to) \div 2) * (2 ^ (to - (from + to) \div 2))
            + BitsValue(b, (from + to) \div 2 + 1, to)

\* bit i of a - b on u64, for b <= a
DiffBit(a, b, i) ==
    LET borrow == \E j \in (i + 1)..64 :
                      a[j] < b[j] /\ \A k \in (i + 1)..(j - 1) : a[k] = b[k]
    IN (a[i] - b[i] - (IF borrow THEN 1 ELSE 0) + 2) % 2

\* ((a - b) >> (64 - l)) as usize, for b <= a and 1 <= l <= 64; a value of
\* 2^30 or more is given as 2^30, which is past the end of every symbol table
SubShr(a, b, l) ==
    LET borrow == \E i \in (l + 1)..64 :
                      a[i] < b[i] /\ \A j \in (l + 1)..(i - 1) : a[j] = b[j]
    IN IF l <= 30
       THEN BitsValue(a, 1, l) - BitsValue(b, 1, l) - (IF borrow THEN 1 ELSE 0)
       ELSE IF \E i \in 1..(l - 30) : DiffBit(a, b, i) = 1 THEN 2 ^ 30
       ELSE BitsValue([i \in 1..64 |-> DiffBit(a, b, i)], l - 29, l)

\* the bits of a byte, and the u64 and u32 that from_be_bytes makes of bytes
ByteBits(byte) == [k \in 1..8 |-> (byte \div (2 ^ (8 - k))) % 2]

FromBeBytes(bytes) ==
    SubSeq([k \in 1..(8 * Len(bytes)) |->
               ByteBits(bytes[((k - 1) \div 8) + 1])[((k - 1) % 8) + 1]],
           1, 8 * Len(bytes))

\* code | ((word as u64) << bitcount), word a u32 as 32 bits, 0 <= bitcount < 32
OrShifted(code, word, bitcount) ==
    SubSeq([k \in 1..64 |->
               IF k > 32 - bitcount /\ k <= 64 - bitcount
               THEN IF code[k] = 1 \/ word[k - (32 - bitcount)] = 1 THEN 1 ELSE 0
               ELSE code[k]],
           1, 64)

\* u16::from_le_bytes of the two bytes at offset `at` (from 0) of a slice, -1
\* when the slice is too short
U16At(bytes, at) ==
    IF at + 2 > Len(bytes) THEN -1 ELSE bytes[at + 1] + 256 * bytes[at + 2]

\* read_u24 of sympat[3 * s..3 * s + 3], -1 when out of range
read_u24(sympat, s) ==
    IF 3 * s + 3 > Len(sympat) THEN -1
    ELSE sympat[3 * s + 1] + 256 * sympat[3 * s + 2] + 65536 * sympat[3 * s + 3]

\* The state of the symbol length pass of create: symlen and tmp as in the
\* code, the number of times calculate_symlen was entered for every symbol,
\* and "Panic" once a slice was indexed out of range, the recursion did not
\* end, or an addition left u8 in a build with overflow checks.
SymlenStart(num_syms) ==
    [tag |-> "Ok", symlen |-> [s \in 1..num_syms |-> 0],
     tmp |-> [s \in 1..num_syms |-> FALSE], calls |-> [s \in 1..num_syms |-> 0]]

\* symlen[s] = symlen[s1] + symlen[s2] + 1; tmp[s] = true
SymlenStore(st, s, s1, s2, overflow_checks) ==
    IF st.tag # "Ok" THEN st
    ELSE IF overflow_checks /\ st.symlen[s1 + 1] + st.symlen[s2 + 1] + 1 > 255
    THEN [st EXCEPT !.tag = "Panic"]
    ELSE [st EXCEPT !.symlen[s + 1] = (st.symlen[s1 + 1] + st.symlen[s2 + 1] + 1) % 256,
                    !.tmp[s + 1] = TRUE]

\* calculate_symlen(symlen, sympat, s, tmp); a recursion deeper than the
\* number of symbols is one that does not end
RECURSIVE calculate_symlen(_, _, _, _, _)
SymlenSecond(st, sympat, s, s1, s2, fuel, overflow_checks) ==
    IF st.tag # "Ok" THEN st
    ELSE IF s2 >= Len(st.tmp) THEN [st EXCEPT !.tag = "Panic"]
    ELSE SymlenStore(IF st.tmp[s2 + 1] THEN st
                     ELSE calculate_symlen(st, sympat, s2, fuel - 1, overflow_checks),
                     s, s1, s2, overflow_checks)

SymlenFirst(st, sympat, s, s1, s2, fuel, overflow_checks) ==
    IF s1 >= Len(st.tmp) THEN [st EXCEPT !.tag = "Panic"]
    ELSE SymlenSecond(IF st.tmp[s1 + 1] THEN st
                      ELSE calculate_symlen(st, sympat, s1, fuel - 1, overflow_checks),
                      sympat, s, s1, s2, fuel, overflow_checks)

calculate_symlen(st, sympat, s, fuel, overflow_checks) ==
    IF st.tag # "Ok" THEN st
    ELSE IF fuel = 0 \/ read_u24(sympat, s) = -1 THEN [st EXCEPT !.tag = "Panic"]
    ELSE IF read_u24(sympat, s) \div 4096 = 4095
    THEN [st EXCEPT !.symlen[s + 1] = 0, !.tmp[s + 1] = TRUE, !.calls[s + 1] = @ + 1]
    ELSE SymlenFirst([st EXCEPT !.calls[s + 1] = @ + 1], sympat, s,
                     read_u24(sympat, s) % 4096, read_u24(sympat, s) \div 4096,
                     fuel, overflow_checks)

\* create, lines 68-74: for i in 0..num_syms { if !tmp[i] { calculate_symlen(..) } }
RECURSIVE SymlenLoop(_, _, _, _)
SymlenLoop(st, sympat, i, overflow_checks) ==
    IF i >= Len(st.tmp) \/ st.tag # "Ok" THEN st
    ELSE SymlenLoop(IF st.tmp[i + 1] THEN st
                    ELSE calculate_symlen(st, sympat, i, Len(st.tmp), overflow_checks),
                    sympat, i + 1, overflow_checks)

\* The unshifted Huffman bases: base[h - 1] = 0 and
\* base[i] = (base[i + 1] + off_i - off_ip1) / 2; -1 on underflow.
RECURSIVE BaseValue(_, _, _)
BaseValue(offsets, i, h) ==
    IF i >= h - 1 THEN 0
    ELSE LET next == BaseValue(offsets, i + 1, h)
             sum  == next + U16At(offsets, 2 * i) - U16At(offsets, 2 * i + 2)
         IN IF next < 0 \/ sum < 0 THEN -1 ELSE sum \div 2

NoPairsData ==
    [index_bits |-> 0, min_len |-> 0, block_size |-> 0, offsets |-> <<>>,
     sympat |-> <<>>, symlen |-> <<>>, base |-> <<>>,
     index_table |-> <<>>, size_table |-> <<>>, data |-> <<>>,
     overflow_checks |-> FALSE, symlen_calls |-> <<>>]

NoSizes == [index_table_size |-> 0, size_table_size |-> 0, data_table_size |-> 0]

\* PairsData::create on the stream `d` of which read_so_far bytes came before:
\* [tag, pairs_data, sizes, read] with `read` the bytes of d consumed.
\* overflow_checks tells the build: with it an arithmetic overflow panics,
\* without it the value wraps (and a shift amount is taken modulo the width).
\* The PairsData keeps the flag, and how often each symbol length was
\* computed, next to the fields of the struct.
PairsData_create(d, read_so_far, tb_size, wdl, overflow_checks) ==
    LET flags      == d[1]
        block_size == d[2]
        index_bits == d[3]
        extra_blocks == d[4]
        real_num_blocks == read_u32(SubSeq(d, 5, 8))
        num_blocks == real_num_blocks + extra_blocks
        max_len    == d[9]
        min_len    == d[10]
        h          == max_len - min_len + 1
        offsets    == SubSeq(d, 11, 10 + 2 * h)
        num_syms   == U16At(d, 10 + 2 * h)
        sympat     == SubSeq(d, 13 + 2 * h, 12 + 2 * h + 3 * num_syms)
        unaligned  == 12 + 2 * h + 3 * num_syms
        read       == unaligned + ((read_so_far + unaligned) % 2)
        num_indices == (tb_size + (2 ^ index_bits) - 1) \div (2 ^ index_bits)
        pass       == SymlenLoop(SymlenStart(num_syms), sympat, 0, overflow_checks)
        base       == [i \in 1..h |-> BaseValue(offsets, i - 1, h)]
        panic      == [tag |-> "Panic", pairs_data |-> NoPairsData, sizes |-> NoSizes,
                       read |-> 0]
    IN IF Len(d) < 2 THEN panic
       ELSE IF flags \div 128 # 0
       THEN [tag |-> "Ok",
             pairs_data |-> [NoPairsData EXCEPT !.min_len = IF wdl THEN d[2] ELSE 0,
                                                !.overflow_checks = overflow_checks],
             sizes |-> NoSizes,
             read |-> 2]
       ELSE IF Len(d) < 10 \/ max_len < min_len THEN panic
       ELSE IF Len(d) < 12 + 2 * h THEN panic
       ELSE IF Len(d) < read THEN panic
       \* (the model's integers end at 2^31: larger exponents are not modelled)
       ELSE IF index_bits > 16 \/ block_size > 16 THEN panic
       ELSE IF pass.tag # "Ok" THEN panic
       \* (code lengths of 0 and of more than 64 bits are not modelled)
       ELSE IF min_len = 0 \/ max_len > 64 \/ \E i \in 1..h : base[i] = -1 THEN panic
       ELSE [tag |-> "Ok",
             pairs_data |-> [index_bits |-> index_bits, min_len |-> min_len,
                             block_size |-> block_size, offsets |-> offsets,
                             sympat |-> sympat, symlen |-> pass.symlen,
                             base |-> [i \in 1..h |->
                                         Shl(U64(base[i]), 64 - (min_len + i - 1))],
                             index_table |-> <<>>, size_table |-> <<>>, data |-> <<>>,
                             overflow_checks |-> overflow_checks,
                             symlen_calls |-> pass.calls],
             sizes |-> [index_table_size |-> 6 * num_indices,
                        size_table_size |-> 2 * num_blocks,
                        data_table_size |-> (2 ^ block_size) * real_num_blocks],
             read |-> read]

\* PairsTable_new with the stream created as that of a DTZ table.
PairsTable_new_NotWdl(d, tb_size, overflow_checks) ==
    LET c     == PairsData_create(d, 0, tb_size, FALSE, overflow_checks)
        its   == c.sizes.index_table_size
        sts   == c.sizes.size_table_size
        dts   == c.sizes.data_table_size
        at    == c.read + its + sts
        start == at + ((64 - (at % 64)) % 64)
    IN IF c.tag # "Ok" \/ Len(d) < start + dts
       THEN [tag |-> "Panic", pairs_data |-> NoPairsData, sizes |-> NoSizes]
       ELSE [tag |-> "Ok",
             pairs_data |-> [c.pairs_data EXCEPT
                               !.index_table = SubSeq(d, c.read + 1, c.read + its),
                               !.size_table = SubSeq(d, c.read + its + 1, at),
                               !.data = SubSeq(d, start + 1, start + dts)],
             sizes |-> c.sizes]

\* The sub-table part of WdlTable::new: create, then the index table, the
\* size table and, from the next multiple of 64, the data, each a read_array
\* of the size that create reported.
PairsTable_new(d, tb_size, overflow_checks) ==
    LET c     == PairsData_create(d, 0, tb_size, TRUE, overflow_checks)
        its   == c.sizes.index_table_size
        sts   == c.sizes.size_table_size
        dts   == c.sizes.data_table_size
        at    == c.read + its + sts
        start == at + ((64 - (at % 64)) % 64)
    IN IF c.tag # "Ok" \/ Len(d) < start + dts
       THEN [tag |-> "Panic", pairs_data |-> NoPairsData, sizes |-> NoSizes]
       ELSE [tag |-> "Ok",
             pairs_data |-> [c.pairs_data EXCEPT
                               !.index_table = SubSeq(d, c.read + 1, c.read + its),
                               !.size_table = SubSeq(d, c.read + its + 1, at),
                               !.data = SubSeq(d, start + 1, start + dts)],
             sizes |-> c.sizes]

\* What lookup returns, [tag, value], with what its locals held on the way:
\* `constant` tells that the value is min_len, returned at line 113; sym is
\* the literal reached; from_block, from_lit and block, lit_index are block
\* and lit_index before and after the block walk; top and residual are sym
\* and lit_index when the symbol loop was left (-1 for a block or a symbol
\* that lookup did not get to); within tells that 0 <= lit_index <=
\* symlen[sym] held whenever the expansion loop tested its condition;
\* wide_shift tells what `code <<= l` did the first time l was 64 ("none"
\* when it never was).
PairsPanic ==
    [tag |-> "Panic", value |-> 0, constant |-> FALSE, sym |-> 0,
     from_block |-> -1, from_lit |-> 0, block |-> -1, lit_index |-> 0,
     top |-> -1, residual |-> 0, within |-> TRUE, wide_shift |-> "none"]

NoWalk == [ok |-> FALSE, block |-> 0, lit_index |-> 0]

\* The backward walk adding the size of the block it leaves.
RECURSIVE WalkBack_SizeOfBlockLeft(_, _, _)
WalkBack_SizeOfBlockLeft(size_table, block, lit_index) ==
    IF lit_index >= 0 THEN [ok |-> TRUE, block |-> block, lit_index |-> lit_index]
    ELSE IF block = 0 \/ U16At(size_table, 2 * block) = -1 THEN NoWalk
    ELSE WalkBack_SizeOfBlockLeft(size_table, block - 1,
                                  lit_index + U16At(size_table, 2 * block) + 1)

\* line 136-139: while lit_index < 0 { block -= 1; lit_index += size_table(block) + 1 }
RECURSIVE WalkBack(_, _, _)
WalkBack(size_table, block, lit_index) ==
    IF lit_index >= 0 THEN [ok |-> TRUE, block |-> block, lit_index |-> lit_index]
    ELSE IF block = 0 \/ U16At(size_table, 2 * (block - 1)) = -1 THEN NoWalk
    ELSE WalkBack(size_table, block - 1,
                  lit_index + U16At(size_table, 2 * (block - 1)) + 1)

\* line 141-144: while lit_index > size_table(block) { lit_index -= ..; block += 1 }
RECURSIVE WalkForward(_, _, _)
WalkForward(size_table, block, lit_index) ==
    IF U16At(size_table, 2 * block) = -1 THEN NoWalk
    ELSE IF lit_index > U16At(size_table, 2 * block)
    THEN WalkForward(size_table, block + 1, lit_index - U16At(size_table, 2 * block) - 1)
    ELSE [ok |-> TRUE, block |-> block, lit_index |-> lit_index]

\* lookup, lines 135-145: the walk to the block that holds the value
BlockWalk(size_table, block, lit_index) ==
    IF lit_index < 0
    THEN WalkBack(size_table, block, lit_index)
    ELSE WalkForward(size_table, block, lit_index)

\* lookup, line 180-191: the descent from a symbol to the literal
RECURSIVE Expand(_, _, _, _)
RECURSIVE ExpandStep(_, _, _, _, _)
Expand(pd, sym, lit_index, fuel) ==
    IF sym >= Len(pd.symlen) \/ fuel = 0 THEN PairsPanic
    ELSE [(IF pd.symlen[sym + 1] = 0
           THEN [PairsPanic EXCEPT !.tag = "Ok", !.value = pd.sympat[3 * sym + 1],
                                   !.sym = sym]
           ELSE ExpandStep(pd, read_u24(pd.sympat, sym), read_u24(pd.sympat, sym) % 4096,
                           lit_index, fuel))
             EXCEPT !.within = @ /\ 0 <= lit_index /\ lit_index <= pd.symlen[sym + 1]]

\* lines 182-189
ExpandStep(pd, w, s1, lit_index, fuel) ==
    IF s1 >= Len(pd.symlen) THEN PairsPanic
    ELSE IF lit_index < pd.symlen[s1 + 1] + 1
    THEN Expand(pd, s1, lit_index, fuel - 1)
    ELSE Expand(pd, w \div 4096, lit_index - pd.symlen[s1 + 1] - 1, fuel - 1)

\* lookup, lines 162-165: the code length, -1 when base is indexed out of range
RECURSIVE CodeLength(_, _, _)
CodeLength(pd, code, l) ==
    IF l - pd.min_len >= Len(pd.base) THEN -1
    ELSE IF Gt64(pd.base[l - pd.min_len + 1], code) THEN CodeLength(pd, code, l + 1)
    ELSE l

\* line 170, code <<= l: the shift amount is below 64 except for l = 64,
\* where a build with overflow checks panics and one without takes the
\* amount modulo 64 and leaves code as it is
ShlAssign(code, l, overflow_checks) ==
    IF l < 64 THEN [tag |-> "Ok", code |-> Shl(code, l)]
    ELSE IF overflow_checks THEN [tag |-> "Panic", code |-> code]
    ELSE [tag |-> "Ok", code |-> Shl(code, l % 64)]

WideShift(code, l, shifted) ==
    IF l < 64 THEN "none"
    ELSE IF shifted.tag # "Ok" THEN "fails"
    ELSE IF shifted.code = U64(0) THEN "zero"
    ELSE IF shifted.code = code THEN "unchanged"
    ELSE "other"

\* lookup, lines 161-178: the loop over the symbols of the block.  The
\* locals of the loop are st: ptr (the offset in data of the next bytes to
\* load), code, bitcount, lit_index, and sym once the loop is left by its
\* break (done); tag "Panic" stands for a failed index or shift.
SymbolPanic(st) == [st EXCEPT !.done = TRUE, !.tag = "Panic"]

\* lines 171-176
SymbolNext(pd, st, shifted, bitcount, lit_index) ==
    IF shifted.tag # "Ok" THEN SymbolPanic(st)
    ELSE IF bitcount < 32
    THEN [st EXCEPT !.code = shifted.code, !.bitcount = bitcount, !.lit_index = lit_index]
    ELSE IF st.ptr + 4 > Len(pd.data) THEN SymbolPanic(st)
    ELSE [st EXCEPT !.ptr = @ + 4,
                    !.code = OrShifted(shifted.code,
                                       FromBeBytes(SubSeq(pd.data, st.ptr + 1, st.ptr + 4)),
                                       bitcount - 32),
                    !.bitcount = bitcount - 32,
                    !.lit_index = lit_index]

\* lines 167-170
SymbolShift(pd, st, lit_index, l, shifted) ==
    SymbolNext(pd,
               [st EXCEPT !.wide_shift = IF l < 64 \/ @ # "none" THEN @
                                         ELSE WideShift(st.code, l, shifted)],
               shifted, st.bitcount + l, lit_index)

\* lines 167-169
SymbolFound(pd, st, l, sym) ==
    IF sym >= Len(pd.symlen) THEN SymbolPanic(st)
    ELSE IF st.lit_index < pd.symlen[sym + 1] + 1
    THEN [st EXCEPT !.done = TRUE, !.sym = sym]
    ELSE SymbolShift(pd, st, st.lit_index - pd.symlen[sym + 1] - 1, l,
                     ShlAssign(st.code, l, pd.overflow_checks))

\* line 166
SymbolOfLength(pd, st, l) ==
    IF l = -1 \/ U16At(pd.offsets, 2 * (l - pd.min_len)) = -1 THEN SymbolPanic(st)
    ELSE SymbolFound(pd, st, l,
                     U16At(pd.offsets, 2 * (l - pd.min_len))
                        + SubShr(st.code, pd.base[l - pd.min_len + 1], l))

\* one turn of the loop
SymbolStep(pd, st) ==
    IF st.done THEN st
    ELSE SymbolOfLength(pd, st, CodeLength(pd, st.code, pd.min_len))

\* n turns of the loop, or as many as it takes
RECURSIVE SymbolSteps(_, _, _)
SymbolSteps(pd, st, n) ==
    IF st.done THEN st
    ELSE IF n <= 1 THEN SymbolStep(pd, st)
    ELSE SymbolSteps(pd, SymbolSteps(pd, st, n \div 2), n - n \div 2)

\* lines 180-192 after the loop
SymbolEnd(pd, st) ==
    IF st.tag # "Ok" \/ ~st.done THEN [PairsPanic EXCEPT !.wide_shift = st.wide_shift]
    ELSE [Expand(pd, st.sym, st.lit_index, Len(pd.symlen) + 1)
             EXCEPT !.top = st.sym, !.residual = st.lit_index,
                    !.wide_shift = st.wide_shift]

\* every turn that does not break takes at least 1 from lit_index, which
\* is not negative: the loop is left within lit_index + 1 turns
SymbolLoop(pd, ptr, code, bitcount, lit_index) ==
    SymbolEnd(pd,
              SymbolSteps(pd,
                          [done |-> FALSE, tag |-> "Ok", ptr |-> ptr, code |-> code,
                           bitcount |-> bitcount, lit_index |-> lit_index, sym |-> 0,
                           wide_shift |-> "none"],
                          lit_index + 1))

\* lines 147-193, from the block the walk ended in
LookupFrom(pd, from_block, from_lit, walk) ==
    IF ~walk.ok THEN PairsPanic
    ELSE [(IF walk.block * (2 ^ pd.block_size) + 8 > Len(pd.data) THEN PairsPanic
           ELSE SymbolLoop(pd, walk.block * (2 ^ pd.block_size) + 8,
                           FromBeBytes(SubSeq(pd.data,
                                              walk.block * (2 ^ pd.block_size) + 1,
                                              walk.block * (2 ^ pd.block_size) + 8)),
                           0, walk.lit_index))
             EXCEPT !.from_block = from_block, !.from_lit = from_lit,
                    !.block = walk.block, !.lit_index = walk.lit_index]

\* lines 116-129: block and lit_index as the index table gives them
LookupWalk(pd, block, lit_index) ==
    LookupFrom(pd, block, lit_index, BlockWalk(pd.size_table, block, lit_index))

\* PairsData::lookup
PairsData_lookup(pd, index) ==
    IF pd.index_bits = 0
    THEN [PairsPanic EXCEPT !.tag = "Ok", !.value = pd.min_len % 256, !.constant = TRUE]
    ELSE IF 6 * (index \div (2 ^ pd.index_bits)) + 6 > Len(pd.index_table) THEN PairsPanic
    ELSE LookupWalk(pd,
            read_u32(SubSeq(pd.index_table, 6 * (index \div (2 ^ pd.index_bits)) + 1,
                            6 * (index \div (2 ^ pd.index_bits)) + 4)),
            (index % (2 ^ pd.index_bits)) - 2 ^ (pd.index_bits - 1)
               + U16At(pd.index_table, 6 * (index \div (2 ^ pd.index_bits)) + 4))

(***************************************************************************)
(* Compressed streams as PairsData::create and lookup read them.  A code   *)
(* book gives the shortest code length, the offsets (the first symbol of   *)
(* every code length, longest codes numbered first) and the 3-byte         *)
(* patterns; a stream holds a sequence of symbols packed into blocks of    *)
(* 2^block_size bytes, a symbol never across two blocks, with the size and *)
(* index tables that locate every value.                                   *)
(***************************************************************************)
\* the pattern of a literal, and of a symbol made of the symbols s1 and s2
Lit(v) == <<v, 240, 255>>

Pair(s1, s2) == <<s1 % 256, (s1 \div 256) + 16 * (s2 % 16), s2 \div 16>>

LE16(n) == <<n % 256, n \div 256>>

LE32(n) == <<n % 256, (n \div 256) % 256, (n \div 65536) % 256, n \div 16777216>>

RECURSIVE Concat(_)
Concat(seqs) == IF seqs = <<>> THEN <<>> ELSE Head(seqs) \o Concat(Tail(seqs))

RECURSIVE SumSeq(_)
SumSeq(seq) == IF seq = <<>> THEN 0 ELSE Head(seq) + SumSeq(Tail(seq))

\* two codes of one bit
CodebookA == [min_len |-> 1, offs |-> <<0>>, pats |-> <<Lit(0), Lit(2)>>]

\* codes 00, 01 and 1; symbol 1 stands for the values of symbols 2 and 0
CodebookB == [min_len |-> 1, offs |-> <<2, 0>>, pats |-> <<Lit(4), Pair(2, 0), Lit(2)>>]

\* codes 000, 001, 01, 10, 11; symbol 0 stands for the values of symbols 1 and 3
CodebookC ==
    [min_len |-> 2, offs |-> <<2, 0>>,
     pats |-> <<Pair(1, 3), Pair(2, 4), Lit(0), Lit(2), Lit(4)>>]

Codebooks == {CodebookA, CodebookB, CodebookC}

\* codes of four bits; symbol k + 1 stands for symbol k twice, from symbol 2
\* (the values 0, 4) to symbol 9 (256 values)
CodebookLong ==
    [min_len |-> 4, offs |-> <<0>>,
     pats |-> <<Lit(0), Lit(4), Pair(0, 1)>> \o [k \in 1..7 |-> Pair(k + 1, k + 1)]]

\* the same with symbol 10, which stands for symbol 9 and one value more
CodebookOverlong == [CodebookLong EXCEPT !.pats = @ \o <<Pair(9, 0)>>]

\* two codes of 64 bits
CodebookWide == [min_len |-> 64, offs |-> <<0>>, pats |-> <<Lit(0), Lit(2)>>]

OffsetBytes(cb) == Concat([i \in 1..Len(cb.offs) |-> LE16(cb.offs[i])])

\* The code of a symbol: its length min_len + i for the i with
\* offs[i] <= sym < offs[i - 1], its value base[i] + sym - offs[i].
CodeOf(cb, sym) ==
    LET h == Len(cb.offs)
        i == CHOOSE j \in 0..(h - 1) :
                 cb.offs[j + 1] <= sym /\ (j = 0 \/ sym < cb.offs[j])
        L == cb.min_len + i
        v == BaseValue(OffsetBytes(cb), i, h) + sym - cb.offs[i + 1]
    IN [k \in 1..L |-> IF L - k > 30 THEN 0 ELSE (v \div (2 ^ (L - k))) % 2]

\* The values a symbol stands for.
RECURSIVE SymValues(_, _)
SymValues(cb, sym) ==
    LET w == read_u24(Concat(cb.pats), sym)
    IN IF w \div 4096 = 4095 THEN <<cb.pats[sym + 1][1]>>
       ELSE SymValues(cb, w % 4096) \o SymValues(cb, w \div 4096)

\* The symbols block by block: a block takes symbols while their codes fit.
RECURSIVE PackBlocks(_, _, _, _, _)
PackBlocks(cb, syms, bits, cur, used) ==
    IF syms = <<>> THEN (IF cur = <<>> THEN <<>> ELSE <<cur>>)
    ELSE IF used + Len(CodeOf(cb, Head(syms))) > bits
    THEN <<cur>> \o PackBlocks(cb, syms, bits, <<>>, 0)
    ELSE PackBlocks(cb, Tail(syms), bits, Append(cur, Head(syms)),
                    used + Len(CodeOf(cb, Head(syms))))

\* For every value in turn, the block (from 1) that holds its symbol and the
\* bits of the block before the code of that symbol.
RECURSIVE Places(_, _, _, _, _)
Places(cb, syms, bits, block, used) ==
    IF syms = <<>> THEN <<>>
    ELSE IF used + Len(CodeOf(cb, Head(syms))) > bits
    THEN Places(cb, syms, bits, block + 1, 0)
    ELSE Rep([block |-> block, bit |-> used], Len(SymValues(cb, Head(syms))))
            \o Places(cb, Tail(syms), bits, block, used + Len(CodeOf(cb, Head(syms))))

\* The bytes of a block: the codes of its symbols, then zero bits.
BlockBytes(cb, block, bytes) ==
    LET codes == Concat([k \in 1..Len(block) |-> CodeOf(cb, block[k])])
        bits  == [k \in 1..(8 * bytes) |-> IF k <= Len(codes) THEN codes[k] ELSE 0]
    IN [j \in 1..bytes |-> BitsValue(bits, 8 * j - 7, 8 * j)]

\* The number of values in a block.
BlockValues(cb, block) == SumSeq([k \in 1..Len(block) |-> Len(SymValues(cb, block[k]))])

\* The stream of the symbols syms: [bytes, tb_size, values, blocks, places].
PairsStream(cb, block_size, index_bits, syms) ==
    LET blocks  == PackBlocks(cb, syms, 8 * (2 ^ block_size), <<>>, 0)
        counts  == [b \in 1..Len(blocks) |-> BlockValues(cb, blocks[b])]
        first   == [b \in 1..Len(blocks) |-> SumSeq(SubSeq(counts, 1, b - 1))]
        tb_size == SumSeq(counts)
        num_indices == (tb_size + (2 ^ index_bits) - 1) \div (2 ^ index_bits)
        mid(k)  == k * (2 ^ index_bits) + 2 ^ (index_bits - 1)
        at(k)   == IF mid(k) < tb_size THEN mid(k) ELSE tb_size - 1
        blk(k)  == CHOOSE b \in 1..Len(blocks) :
                       first[b] <= at(k) /\ at(k) < first[b] + counts[b]
        header  == <<0, block_size, index_bits, 0>> \o LE32(Len(blocks))
                      \o <<cb.min_len + Len(cb.offs) - 1, cb.min_len>>
                      \o OffsetBytes(cb) \o LE16(Len(cb.pats)) \o Concat(cb.pats)
        aligned == header \o Rep(0, Len(header) % 2)
        index   == Concat([k \in 1..num_indices |->
                             LE32(blk(k - 1) - 1) \o LE16(mid(k - 1) - first[blk(k - 1)])])
        sizes   == Concat([b \in 1..Len(blocks) |-> LE16(counts[b] - 1)])
        tables  == aligned \o index \o sizes
        padded  == tables \o Rep(0, (64 - (Len(tables) % 64)) % 64)
    IN [bytes |-> padded \o Concat([b \in 1..Len(blocks) |->
                                       BlockBytes(cb, blocks[b], 2 ^ block_size)]),
        tb_size |-> tb_size,
        values |-> Concat([k \in 1..Len(syms) |-> SymValues(cb, syms[k])]),
        blocks |-> blocks,
        places |-> Places(cb, syms, 8 * (2 ^ block_size), 1, 0)]

\* The stream of a table whose values are all v: flags with bit 7, then v.
ConstantStream(v) ==
    [bytes |-> <<128, v>> \o Rep(0, 62), tb_size |-> TbSize, values |-> Rep(v, TbSize),
     blocks |-> <<>>, places |-> <<>>]

(***************************************************************************)
(* Material strings (impl FromStr for Material).  A string is a sequence   *)
(* of one-character strings.                                               *)
(***************************************************************************)
\* The upper-case form of a character of a material string.
ToUpper(ch) ==
    CASE ch = "q" -> "Q" [] ch = "r" -> "R" [] ch = "b" -> "B" [] ch = "n" -> "N"
      [] ch = "p" -> "P" [] ch = "k" -> "K" [] OTHER -> ch

\* The closure `index` matching the letters in either case.
PieceIndex_AnyCase(ch) ==
    CASE ToUpper(ch) = "Q" -> Queen
      [] ToUpper(ch) = "R" -> Rook
      [] ToUpper(ch) = "B" -> Bishop
      [] ToUpper(ch) = "N" -> Knight
      [] ToUpper(ch) = "P" -> Pawn
      [] ToUpper(ch) = "K" -> 0
      [] OTHER    -> -1

\* the closure `index`: 0 stands for None (a 'K'), -1 for UnknownMaterial
PieceIndex(ch) ==
    CASE ch = "Q" -> Queen
      [] ch = "R" -> Rook
      [] ch = "B" -> Bishop
      [] ch = "N" -> Knight
      [] ch = "P" -> Pawn
      [] ch = "K" -> 0
      [] OTHER    -> -1

RECURSIVE CountChars(_, _)
CountChars(chars, counts) ==
    IF chars = <<>> THEN counts
    ELSE LET p == PieceIndex(Head(chars))
         IN CountChars(Tail(chars),
                       IF p > 0 THEN [counts EXCEPT ![p] = counts[p] + 1] ELSE counts)

\* The characters before the first 'v', and those after it.
RECURSIVE BeforeV(_)
BeforeV(chars) ==
    IF chars = <<>> \/ Head(chars) = "v" THEN <<>>
    ELSE <<Head(chars)>> \o BeforeV(Tail(chars))

RECURSIVE AfterV(_)
AfterV(chars) ==
    IF chars = <<>> THEN <<>>
    ELSE IF Head(chars) = "v" THEN Tail(chars) ELSE AfterV(Tail(chars))

\* Material::from_str: [ok |-> BOOLEAN, material |-> Material]
Material_from_str(str) ==
    LET white == BeforeV(str)
        black == AfterV(str)
    IN IF \E i \in 1..Len(white) : PieceIndex(white[i]) = -1
       THEN [ok |-> FALSE, material |-> MaterialDefault]
       ELSE IF \E i \in 1..Len(black) : PieceIndex(black[i]) = -1
       THEN [ok |-> FALSE, material |-> MaterialDefault]
       ELSE [ok |-> TRUE,
             material |-> <<CountChars(white, <<0, 0, 0, 0, 0>>),
                            CountChars(black, <<0, 0, 0, 0, 0>>)>>]

\* Letters without to_ascii_uppercase: char::from(Piece) is a lower-case letter.
RECURSIVE Letters_LowerCase(_, _)
Letters_LowerCase(counts, plist) ==
    IF plist = <<>> THEN <<>>
    ELSE LET p  == Head(plist)
             ch == CASE p = Queen -> "q" [] p = Rook -> "r" [] p = Bishop -> "b"
                     [] p = Knight -> "n" [] p = Pawn -> "p"
         IN Rep(ch, counts[p]) \o Letters_LowerCase(counts, Tail(plist))

\* impl Display for Material
RECURSIVE Letters(_, _)
Letters(counts, plist) ==
    IF plist = <<>> THEN <<>>
    ELSE LET p  == Head(plist)
             ch == CASE p = Queen -> "Q" [] p = Rook -> "R" [] p = Bishop -> "B"
                     [] p = Knight -> "N" [] p = Pawn -> "P"
         IN Rep(ch, counts[p]) \o Letters(counts, Tail(plist))

Material_to_string(m) ==
    <<"K">> \o Letters(m[1], CANONICAL_PIECE_ORDER)
        \o <<"v", "K">> \o Letters(m[2], CANONICAL_PIECE_ORDER)

(***************************************************************************)
(* The state machine: a Tablebase, the position its caller holds, and the  *)
(* results of the last load and of the last probe.                         *)
(***************************************************************************)
VARIABLES
    max_pieces,   \* Tablebase::max_pieces
    wdl,          \* Tablebase::wdl
    position,     \* the caller's Board
    result,       \* what the last probe_wdl(&position) returned
    last_load,    \* what the last load returned
    last_file,    \* the data handed to the last load
    last_files,   \* the files handed to the last load, with their material strings
    before,       \* the Tablebase as the last load found it
    ply,          \* moves the caller has played from its start position
    loads,        \* load operations made so far
    stack,        \* the activations of a probe_wdl in progress
    missed,       \* a read_wdl of the probe found castling rights or no table
    threads,      \* the probes that threads sharing the Tablebase have in progress
    arg,          \* the input of the function under study
    ret           \* what the function returned for arg

vars == <<max_pieces, wdl, position, result, last_load, last_file, last_files,
          before, ply, loads, stack, missed, threads, arg, ret>>

MaxPly == 1

MaxLoads == 1

MaxSeed == 1

NotProbed == [tag |-> "NotProbed", wdl |-> 0, capture |-> FALSE]

\* The caller has not set up a board yet.
NoBoard == [board |-> [s \in Squares |-> 0], stm |-> White, ep |-> {}, castle |-> {}]

NoFile == [magic |-> <<>>, flags |-> 0, men |-> <<>>, seed |-> 0]

\* No function is under study.
NoCall == [op |-> "none"]

\* Tablebase::new
Init ==
    /\ max_pieces = 2
    /\ wdl = <<>>
    /\ position = NoBoard
    /\ result = NotProbed
    /\ last_load = "None"
    /\ last_file = NoFile
    /\ ply = 0
    /\ loads = 0
    /\ stack = <<>>
    /\ missed = FALSE
    /\ last_files = <<>>
    /\ before = [wdl |-> <<>>, max_pieces |-> 2]
    /\ threads = <<>>
    /\ arg = NoCall
    /\ ret = NoCall

\* load_bytes with max_pieces raised before WdlTable::load has succeeded.
load_bytes_RaisesFirst(w, mp, material_str, file) ==
    LET parsed   == Material_from_str(material_str)
        material == parsed.material
        loaded   == WdlTable_load(file, material)
    IN IF ~parsed.ok
       THEN [ret |-> "UnknownMaterial", wdl |-> w, max_pieces |-> mp]
       ELSE IF count(material) > MAX_PIECES
       THEN [ret |-> "Panic", wdl |-> w, max_pieces |-> mp]
       ELSE IF material \in DOMAIN w
       THEN [ret |-> "Ok", wdl |-> w, max_pieces |-> mp]
       ELSE IF loaded.tag = "Err"
       THEN [ret |-> "Io", wdl |-> w, max_pieces |-> Max2(mp, count(material))]
       ELSE IF loaded.tag = "Panic"
       THEN [ret |-> "Panic", wdl |-> w, max_pieces |-> mp]
       ELSE [ret |-> "Ok",
             wdl |-> [m \in DOMAIN w \cup {material} |->
                         IF m = material THEN loaded.table ELSE w[m]],
             max_pieces |-> Max2(mp, count(material))]

\* load_bytes with WdlTable::load called before the entry is looked up.
load_bytes_ParsesFirst(w, mp, material_str, file) ==
    LET parsed   == Material_from_str(material_str)
        material == parsed.material
        loaded   == WdlTable_load(file, material)
    IN IF ~parsed.ok
       THEN [ret |-> "UnknownMaterial", wdl |-> w, max_pieces |-> mp]
       ELSE IF count(material) > MAX_PIECES
       THEN [ret |-> "Panic", wdl |-> w, max_pieces |-> mp]
       ELSE IF loaded.tag = "Err"
       THEN [ret |-> "Io", wdl |-> w, max_pieces |-> mp]
       ELSE IF loaded.tag = "Panic"
       THEN [ret |-> "Panic", wdl |-> w, max_pieces |-> mp]
       ELSE IF material \in DOMAIN w
       THEN [ret |-> "Ok", wdl |-> w, max_pieces |-> mp]
       ELSE [ret |-> "Ok",
             wdl |-> [m \in DOMAIN w \cup {material} |->
                         IF m = material THEN loaded.table ELSE w[m]],
             max_pieces |-> Max2(mp, count(material))]

\* load_bytes with max_pieces assigned the new table's piece count.
load_bytes_AssignsCount(w, mp, material_str, file) ==
    LET parsed   == Material_from_str(material_str)
        material == parsed.material
        loaded   == WdlTable_load(file, material)
    IN IF ~parsed.ok
       THEN [ret |-> "UnknownMaterial", wdl |-> w, max_pieces |-> mp]
       ELSE IF count(material) > MAX_PIECES
       THEN [ret |-> "Panic", wdl |-> w, max_pieces |-> mp]
       ELSE IF material \in DOMAIN w
       THEN [ret |-> "Ok", wdl |-> w, max_pieces |-> mp]
       ELSE IF loaded.tag = "Err"
       THEN [ret |-> "Io", wdl |-> w, max_pieces |-> mp]
       ELSE IF loaded.tag = "Panic"
       THEN [ret |-> "Panic", wdl |-> w, max_pieces |-> mp]
       ELSE [ret |-> "Ok",
             wdl |-> [m \in DOMAIN w \cup {material} |->
                         IF m = material THEN loaded.table ELSE w[m]],
             max_pieces |-> count(material)]

\* The outcome of load_bytes_static / load_bytes_owned / load_file_with_material
\* on the map `w`: [ret, wdl, max_pieces].
load_bytes(w, mp, material_str, file) ==
    LET parsed   == Material_from_str(material_str)
        material == parsed.material
        loaded   == WdlTable_load(file, material)
    IN IF ~parsed.ok
       THEN [ret |-> "UnknownMaterial", wdl |-> w, max_pieces |-> mp]
       ELSE IF count(material) > MAX_PIECES
       THEN [ret |-> "Panic", wdl |-> w, max_pieces |-> mp]
       ELSE IF material \in DOMAIN w
       THEN [ret |-> "Ok", wdl |-> w, max_pieces |-> mp]
       ELSE IF loaded.tag = "Err"
       THEN [ret |-> "Io", wdl |-> w, max_pieces |-> mp]
       ELSE IF loaded.tag = "Panic"
       THEN [ret |-> "Panic", wdl |-> w, max_pieces |-> mp]
       ELSE [ret |-> "Ok",
             wdl |-> [m \in DOMAIN w \cup {material} |->
                         IF m = material THEN loaded.table ELSE w[m]],
             max_pieces |-> Max2(mp, count(material))]

\* The files of a directory, in the order read_dir yields them (here the
\* order of the piece counts).
Directory(n, seed) ==
    LET ms      == CanonicalMaterials(n)
        digits(m) == m[1] \o m[2]
        code(m) == LET d == digits(m)
                   IN d[1] + n * (d[2] + n * (d[3] + n * (d[4] + n * (d[5] + n * (d[6]
                        + n * (d[7] + n * (d[8] + n * (d[9] + n * d[10]))))))))
        ranked  == {<<Cardinality({x \in ms : code(x) < code(m)}) + 1, m>> : m \in ms}
    IN [i \in 1..Cardinality(ms) |->
           LET m == (CHOOSE r \in ranked : r[1] = i)[2]
           IN [stem |-> Material_to_string(m), file |-> SyzygyFile(m, seed)]]

\* The directories the caller may hand to add_directory.
DirectoryMen == 3..5

Directories == [n \in DirectoryMen, seed \in 0..MaxSeed |-> Directory(n, seed)]

\* add_directory: load_file on every file of the directory, in order,
\* stopping at the first error.  File i is parsed only when its key is
\* neither in the map nor inserted by an earlier file of the directory.
add_directory(w, mp, files) ==
    LET keys     == [i \in 1..Len(files) |-> Material_from_str(files[i].stem)]
        fresh    == [i \in 1..Len(files) |->
                       /\ keys[i].material \notin DOMAIN w
                       /\ \A j \in 1..(i - 1) : keys[j].material # keys[i].material]
        one      == [i \in 1..Len(files) |->
                       load_bytes(IF fresh[i] THEN <<>> ELSE w, mp,
                                  files[i].stem, files[i].file)]
        stops    == {i \in 1..Len(files) : one[i].ret # "Ok"}
        stop     == IF stops = {} THEN Len(files) + 1
                    ELSE CHOOSE i \in stops : \A j \in stops : i <= j
        panic    == stop <= Len(files) /\ one[stop].ret = "Panic"
        added    == {i \in 1..(stop - 1) : fresh[i]}
        new      == {<<keys[i].material, one[i].wdl[keys[i].material]>> : i \in added}
        sizes    == {count(e[1]) : e \in new} \cup {mp}
    IN [ret |-> IF stop > Len(files) THEN "Ok" ELSE one[stop].ret,
        wdl |-> IF panic THEN w
                ELSE [m \in DOMAIN w \cup {e[1] : e \in new} |->
                        IF m \in DOMAIN w THEN w[m]
                        ELSE (CHOOSE e \in new : e[1] = m)[2]],
        max_pieces |-> IF panic THEN mp
                       ELSE CHOOSE c \in sizes : \A d \in sizes : d <= c]

\* The material strings and the files handed to the single-file loads.
LoadStrings ==
    {<<"K", "R", "v", "K", "R">>, <<"K", "R", "v", "K">>, <<"K", "P", "v", "K">>,
     <<"K", "X", "v", "K">>}

BadMagics == {<<93, 35, 232, 113>>, <<113, 232, 35, 92>>, <<0, 0, 0, 0>>}

LoadFiles(material_str) ==
    LET m == Material_from_str(material_str).material
    IN {SyzygyFile(m, seed) : seed \in 0..MaxSeed}
          \cup {[SyzygyFile(m, 0) EXCEPT !.magic = b] : b \in BadMagics}

AddDirectory(limit, files) ==
    /\ loads < limit
    /\ position = NoBoard
    /\ threads = <<>>
    /\ LET r == add_directory(wdl, max_pieces, files)
       IN /\ wdl' = r.wdl
          /\ max_pieces' = r.max_pieces
          /\ last_load' = r.ret
    /\ last_file' = NoFile
    /\ last_files' = files
    /\ before' = [wdl |-> wdl, max_pieces |-> max_pieces]
    /\ loads' = loads + 1
    /\ UNCHANGED <<position, result, ply, stack, missed, threads, arg, ret>>

LoadBytes(limit, material_str, file) ==
    /\ loads < limit
    /\ position = NoBoard
    /\ threads = <<>>
    /\ LET r == load_bytes(wdl, max_pieces, material_str, file)
       IN /\ wdl' = r.wdl
          /\ max_pieces' = r.max_pieces
          /\ last_load' = r.ret
    /\ last_file' = file
    /\ last_files' = <<[stem |-> material_str, file |-> file]>>
    /\ before' = [wdl |-> wdl, max_pieces |-> max_pieces]
    /\ loads' = loads + 1
    /\ UNCHANGED <<position, result, ply, stack, missed, threads, arg, ret>>

\* The caller sets up its board, once the tables are loaded.
SetBoard(pos) ==
    /\ position = NoBoard
    /\ position' = pos
    /\ UNCHANGED <<max_pieces, wdl, result, last_load, last_file, last_files, before, ply, loads,
                   stack, missed,
                   threads, arg, ret>>

\* The caller plays a legal move on its board.
PlayMove ==
    /\ ply < MaxPly
    /\ position # NoBoard
    /\ position.castle = {}
    /\ stack = <<>>
    /\ \E mv \in LegalMoves(position) : position' = play_unchecked(position, mv)
    /\ ply' = ply + 1
    /\ result' = NotProbed
    /\ missed' = FALSE
    /\ UNCHANGED <<max_pieces, wdl, last_load, last_file, last_files, before, loads, stack,
                   threads, arg, ret>>

\* A whole call of probe_wdl(&position).
ProbeWdl(order) ==
    /\ position # NoBoard
    /\ stack = <<>>
    /\ result' = probe_wdl(wdl, position, order)
    /\ UNCHANGED <<max_pieces, wdl, position, last_load, last_file, last_files, before, ply, loads,
                   stack, missed,
                   threads, arg, ret>>

Next ==
    \/ \E n \in DirectoryMen : \E seed \in 0..MaxSeed :
          AddDirectory(MaxLoads, Directories[n, seed])
    \/ \E str \in LoadStrings : \E file \in LoadFiles(str) :
          LoadBytes(MaxLoads, str, file)
    \/ \E pos \in StartPositions : SetBoard(pos)
    \/ PlayMove
    \/ \E order \in {"asc", "desc"} : ProbeWdl(order)

Spec == Init /\ [][Next]_vars

(***************************************************************************)
(* Sequences of loads: single files, well-formed, with a wrong magic or    *)
(* cut short inside the piece bytes, and directories whose files need not  *)
(* all load.                                                               *)
(***************************************************************************)
MaxLoadSeq == 3

\* The well-formed file of the material cut short after k piece bytes.
TruncatedFiles(material_str) ==
    LET f == SyzygyFile(Material_from_str(material_str).material, 0)
    IN {[f EXCEPT !.men = SubSeq(f.men, 1, k)] : k \in 0..(Len(f.men) - 1)}

\* The files a directory may hold under the name `material_str`.rtbw.
DirectoryEntries(material_str) ==
    LET f == SyzygyFile(Material_from_str(material_str).material, 0)
    IN {[stem |-> material_str, file |-> file] :
           file \in {f, [f EXCEPT !.magic = <<0, 0, 0, 0>>]}}

\* Directories of two files, in the order read_dir yields them.
PartialDirectories ==
    UNION {UNION {{<<e1, e2>> : e1 \in DirectoryEntries(s1), e2 \in DirectoryEntries(s2)} :
                     s2 \in LoadStrings \ {s1}} : s1 \in LoadStrings}

NextLoad ==
    \/ \E files \in PartialDirectories : AddDirectory(MaxLoadSeq, files)
    \/ \E str \in LoadStrings : \E file \in LoadFiles(str) \cup TruncatedFiles(str) :
          LoadBytes(MaxLoadSeq, str, file)

SpecLoad == Init /\ [][NextLoad]_vars

(***************************************************************************)
(* Material strings on their own: a Material is formatted and the string   *)
(* parsed, and strings in either case are parsed.                          *)
(***************************************************************************)
\* Every Material within the piece cap, the two kings included.
CappedMaterials ==
    {m \in CountVectors(MAX_PIECES - 2) \X CountVectors(MAX_PIECES - 2) :
        count(m) <= MAX_PIECES}

MaxStrLen == 4

MaterialChars == {"K", "Q", "R", "N", "P", "k", "q", "r", "n", "p", "v"}

MaterialStrings == UNION {[1..n -> MaterialChars] : n \in 0..MaxStrLen}

UpperCase(str) == [i \in 1..Len(str) |-> ToUpper(str[i])]

\* m.to_string().parse::<Material>()
FormatCall(m) ==
    /\ arg = NoCall
    /\ arg' = [op |-> "format", material |-> m]
    /\ ret' = [op |-> "format", str |-> Material_to_string(m),
               parsed |-> Material_from_str(Material_to_string(m))]
    /\ UNCHANGED <<max_pieces, wdl, position, result, last_load, last_file, last_files,
                   before, ply, loads, stack, missed, threads>>

\* str.parse::<Material>(), and the same on the upper-case form of str
ParseCall(str) ==
    /\ arg = NoCall
    /\ arg' = [op |-> "parse", str |-> str]
    /\ ret' = [op |-> "parse", parsed |-> Material_from_str(str),
               upper |-> Material_from_str(UpperCase(str))]
    /\ UNCHANGED <<max_pieces, wdl, position, result, last_load, last_file, last_files,
                   before, ply, loads, stack, missed, threads>>

NextMaterial ==
    \/ \E m \in CappedMaterials : FormatCall(m)
    \/ \E str \in MaterialStrings : ParseCall(str)

SpecMaterial == Init /\ [][NextMaterial]_vars

(***************************************************************************)
(* The pairs decoder on its own: a stream is parsed as WdlTable::new       *)
(* parses the stream of a sub-table, then values are looked up.            *)
(***************************************************************************)
MaxIndexBits == 3

PairsBlockSizes == {3}

PairsLengths == {2, 40, 70}

\* A sequence of n symbols of the code book.
PairsSymbols(cb, n, stride) ==
    [i \in 1..n |-> ((i - 1) * stride + ((i - 1) \div 3)) % Len(cb.pats)]

\* Well-formed streams with symbols, and streams of one constant value.
PairsStreams ==
    {PairsStream(cb, block_size, index_bits, PairsSymbols(cb, n, stride)) :
        cb \in Codebooks, block_size \in PairsBlockSizes, index_bits \in 1..MaxIndexBits,
        n \in PairsLengths, stride \in 1..1}
      \cup {ConstantStream(v) : v \in Wdl}

\* A stream with a symbol of 256 values.
LongStreams ==
    {PairsStream(CodebookLong, 3, index_bits, <<9, 2, 3>>) : index_bits \in 1..MaxIndexBits}

\* A stream with a symbol of 257 values, one more than symlen can count.
OverlongStreams ==
    {PairsStream(CodebookOverlong, 3, index_bits, <<10, 2>>) : index_bits \in 1..MaxIndexBits}

\* Streams of 64-bit codes, two to a block.
WideStreams ==
    {PairsStream(CodebookWide, 4, 1, syms) : syms \in {<<1, 0, 1>>, <<0, 1>>}}

\* Streams whose header declares index_bits = 0 with bit 7 of the flags
\* clear, long enough for the index table that create then asks for.
ZeroIndexBitsStreams ==
    {[st EXCEPT !.bytes = [st.bytes EXCEPT ![3] = 0] \o Rep(0, 6 * st.tb_size + 64)] :
        st \in {PairsStream(cb, 3, 1, PairsSymbols(cb, 20, 1)) : cb \in Codebooks}}

\* WdlTable::new reads the stream of a sub-table.
PairsNew(stream, well_formed, overflow_checks) ==
    /\ arg = NoCall
    /\ arg' = [op |-> "pairs", stream |-> stream, well_formed |-> well_formed,
               overflow_checks |-> overflow_checks,
               made |-> PairsTable_new(stream.bytes, stream.tb_size, overflow_checks)]
    /\ ret' = NoCall
    /\ UNCHANGED <<max_pieces, wdl, position, result, last_load, last_file, last_files,
                   before, ply, loads, stack, missed, threads>>

\* pairs_data.lookup(index)
PairsLookup(index) ==
    /\ arg.op = "pairs"
    /\ ret = NoCall
    /\ arg.made.tag = "Ok"
    /\ index < arg.stream.tb_size
    /\ ret' = [op |-> "lookup", index |-> index,
               out |-> PairsData_lookup(arg.made.pairs_data, index)]
    /\ UNCHANGED <<max_pieces, wdl, position, result, last_load, last_file, last_files,
                   before, ply, loads, stack, missed, threads, arg>>

MaxPairsValues == 140

NextPairs ==
    \/ \E stream \in PairsStreams \cup LongStreams : \E overflow_checks \in BOOLEAN :
          PairsNew(stream, TRUE, overflow_checks)
    \/ \E stream \in OverlongStreams \cup WideStreams : \E overflow_checks \in BOOLEAN :
          PairsNew(stream, FALSE, overflow_checks)
    \/ \E stream \in ZeroIndexBitsStreams : \E overflow_checks \in BOOLEAN :
          PairsNew(stream, FALSE, overflow_checks)
    \/ \E index \in 0..(MaxPairsValues - 1) : PairsLookup(index)

SpecPairs == Init /\ [][NextPairs]_vars

(***************************************************************************)
(* pawn_file on its own: the leading pawns of a table with white_pawns     *)
(* pawns, followed by the other men, on distinct squares.                  *)
(***************************************************************************)
\* a2, b3, c6, d4, e5, g2, h7
PawnFileSquares ==
    {SquareNew(0, 1), SquareNew(1, 2), SquareNew(2, 5), SquareNew(3, 3),
     SquareNew(4, 4), SquareNew(6, 1), SquareNew(7, 6)}

MaxPawnFileMen == 3

PawnFileInputs ==
    {ps \in [1..MaxPawnFileMen -> PawnFileSquares] :
        \A i, j \in 1..MaxPawnFileMen : i # j => ps[i] # ps[j]}

PawnFileCall(white_pawns, piece_squares) ==
    /\ arg = NoCall
    /\ arg' = [op |-> "pawn_file", white_pawns |-> white_pawns,
               piece_squares |-> piece_squares]
    /\ ret' = [op |-> "pawn_file", file |-> pawn_file(white_pawns, piece_squares)[1],
               piece_squares |-> pawn_file(white_pawns, piece_squares)[2]]
    /\ UNCHANGED <<max_pieces, wdl, position, result, last_load, last_file, last_files,
                   before, ply, loads, stack, missed, threads>>

NextPawnFile ==
    \E white_pawns \in 1..MaxPawnFileMen : \E piece_squares \in PawnFileInputs :
        PawnFileCall(white_pawns, piece_squares)

SpecPawnFile == Init /\ [][NextPawnFile]_vars

(***************************************************************************)
(* The pawnful table on its own: the pawn counts WdlTable::new takes from  *)
(* the material, and Table::index on the squares WdlTable::read hands it   *)
(* and on the same squares with two leading pawns exchanged.               *)
(***************************************************************************)
\* Every Material within the piece cap that has a pawn.
PawnfulMaterials ==
    {m \in CappedMaterials : m[1][Pawn] + m[2][Pawn] > 0}

\* let mut white_pawns = ..; let mut black_pawns = ..; if .. { swap }
PawnCountsCall(material) ==
    /\ arg = NoCall
    /\ arg' = [op |-> "pawn_counts", material |-> material]
    /\ ret' = [op |-> "pawn_counts", white_pawns |-> PawnCounts(material)[1],
               black_pawns |-> PawnCounts(material)[2]]
    /\ UNCHANGED <<max_pieces, wdl, position, result, last_load, last_file, last_files,
                   before, ply, loads, stack, missed, threads>>

\* KPPPvK, KPPvKPPP, KPPPvKPPP, KPPvKPP, KPPPvKQ
IndexMaterials ==
    {<<<<3, 0, 0, 0, 0>>, <<0, 0, 0, 0, 0>>>>, <<<<2, 0, 0, 0, 0>>, <<3, 0, 0, 0, 0>>>>,
     <<<<3, 0, 0, 0, 0>>, <<3, 0, 0, 0, 0>>>>, <<<<2, 0, 0, 0, 0>>, <<2, 0, 0, 0, 0>>>>,
     <<<<3, 0, 0, 0, 0>>, <<0, 0, 0, 0, 1>>>>}

\* a2, b4, c3, d6, f5, g7
IndexPawnSquares ==
    {SquareNew(0, 1), SquareNew(1, 3), SquareNew(2, 2), SquareNew(3, 5),
     SquareNew(4, 4), SquareNew(6, 6)}

\* h1, h8, e1: the squares of the kings and of an officer
IndexOtherSquares == <<SquareNew(7, 0), SquareNew(7, 7), SquareNew(4, 0)>>

\* The piece_squares WdlTable::read can hand to Table::index for a table of
\* `material`: the pawns on distinct squares, the one that pawn_file moved
\* to the front (none of the leading pawns has a smaller FLAP) first, then
\* the other men.
IndexInputs(material) ==
    LET wp  == PawnCounts(material)[1]
        bp  == PawnCounts(material)[2]
        men == count(material)
    IN {ps \o SubSeq(IndexOtherSquares, 1, men - wp - bp) :
           ps \in {q \in [1..(wp + bp) -> IndexPawnSquares] :
                      /\ \A i, j \in 1..(wp + bp) : i # j => q[i] # q[j]
                      /\ \A i \in 1..wp : FLAP(q[1]) <= FLAP(q[i])}}

\* The pawn ordering step of Table::index: the squares after the file flip,
\* and after the ordering loops.
PawnOrder(white_pawns, black_pawns, piece_squares) ==
    LET s1 == IF FileOf(piece_squares[1]) > 3
              THEN FlipFiles(piece_squares) ELSE piece_squares
    IN [flipped |-> s1, ordered |-> TwistLoop(s1, 1, 2, white_pawns, black_pawns)]

\* table.index(white_pawns, black_pawns, piece_squares), and the same call on
\* piece_squares with the leading pawns at i and j (from 0) exchanged
IndexCall(material, piece_squares, i, j) ==
    LET wp   == PawnCounts(material)[1]
        bp   == PawnCounts(material)[2]
        norm == pawnful_calculate_norm(wp, bp, FilePieces(material))
        perm == Swap(piece_squares, i + 1, j + 1)
    IN /\ arg = NoCall
       /\ 1 <= i /\ i <= j /\ j < Max2(wp, 2)
       /\ arg' = [op |-> "index", white_pawns |-> wp, black_pawns |-> bp,
                  piece_squares |-> piece_squares, permuted |-> perm]
       /\ ret' = [op |-> "index",
                  index |-> pawnful_index(norm, wp, bp, piece_squares),
                  permuted_index |-> pawnful_index(norm, wp, bp, perm),
                  flipped |-> PawnOrder(wp, bp, piece_squares).flipped,
                  ordered |-> PawnOrder(wp, bp, piece_squares).ordered]
       /\ UNCHANGED <<max_pieces, wdl, position, result, last_load, last_file, last_files,
                      before, ply, loads, stack, missed, threads>>

NextPawnful ==
    \/ \E material \in PawnfulMaterials : PawnCountsCall(material)
    \/ \E material \in IndexMaterials : \E piece_squares \in IndexInputs(material) :
          \E i, j \in 1..2 : IndexCall(material, piece_squares, i, j)

SpecPawnful == Init /\ [][NextPawnful]_vars

(***************************************************************************)
(* The sub-table a read selects: a table is loaded for the key read_wdl    *)
(* looks up and the position is read through it.                           *)
(***************************************************************************)
\* The side whose sub-table read selects (pawnless.rs:120-123, pawnful.rs:178)
ReadSide(pos, color_flip) == IF color_flip THEN Not(pos.stm) ELSE pos.stm

\* The file sub-table a pawnful read selects (pawnful.rs:169-177); 0 for a
\* pawnless table, which has none
ReadFile(table, pos, color_flip) ==
    IF ~table.pawnful THEN 0
    ELSE pawn_file(table.white_pawns,
                   Gather(pos.board, <<table.pieces[1][1]>>, color_flip, color_flip,
                          1, <<>>))[1]

\* A table file whose header declares one file sub-table (flags bit 1 clear).
SingleFile(file) == [file EXCEPT !.flags = @ % 2]

\* The men next to the two kings, and where they stand.
ReadMen ==
    {<<CP(White, Rook)>>, <<CP(Black, Rook)>>, <<CP(White, Pawn)>>, <<CP(Black, Pawn)>>,
     <<CP(White, Rook), CP(Black, Rook)>>, <<CP(White, Pawn), CP(Black, Pawn)>>,
     <<CP(White, Pawn), CP(Black, Rook)>>}

ReadFirstSquares == {<<f, 1 + (f % 3)>> : f \in 0..7}

ReadSecondSquares == {<<2, 5>>, <<7, 6>>}

ReadPositions ==
    {MkPos({<<4, 0, CP(White, King)>>, <<4, 7, CP(Black, King)>>,
            <<a[1], a[2], men[1]>>}
              \cup (IF Len(men) > 1 THEN {<<b[1], b[2], men[2]>>} ELSE {}),
           stm, {}, {}) :
        men \in ReadMen, a \in ReadFirstSquares, b \in ReadSecondSquares,
        stm \in {White, Black}}

\* read_wdl(pos) on a Tablebase that holds the table of pos's key, loaded
\* from a well-formed file with four file sub-tables or with one
ReadCall(pos, single_file) ==
    /\ arg = NoCall
    /\ LET material   == MaterialOf(pos)
           color_flip == ColorFlip(material, pos.stm)
           key        == TableKey(pos)
           file       == IF single_file THEN SingleFile(SyzygyFile(key, 0))
                         ELSE SyzygyFile(key, 0)
           loaded     == WdlTable_load(file, key)
       IN /\ loaded.tag = "Ok"
          /\ arg' = [op |-> "read", pos |-> pos, file |-> file, table |-> loaded.table,
                     color_flip |-> color_flip,
                     side |-> ReadSide(pos, color_flip),
                     f |-> ReadFile(loaded.table, pos, color_flip)]
          /\ ret' = [op |-> "read", out |-> read_wdl((key :> loaded.table), pos)]
    /\ UNCHANGED <<max_pieces, wdl, position, result, last_load, last_file, last_files,
                   before, ply, loads, stack, missed, threads>>

NextRead == \E pos \in ReadPositions : \E single_file \in BOOLEAN : ReadCall(pos, single_file)

SpecRead == Init /\ [][NextRead]_vars

(***************************************************************************)
(* The factors of a pawnless table.  calculate_factors and subfactor work  *)
(* in usize, whose products pass 2^31 but stay far below 2^64: a usize is  *)
(* kept as eight digits of base 1000, the least significant first.         *)
(***************************************************************************)
WideOf(n) ==
    <<n % 1000, (n \div 1000) % 1000, (n \div 1000000) % 1000, n \div 1000000000,
      0, 0, 0, 0>>

\* w * m for a digit m < 1000, from digit k on
RECURSIVE WideMulDigit(_, _, _, _)
WideMulDigit(w, m, k, carry) ==
    IF k > Len(w) THEN <<>>
    ELSE <<(w[k] * m + carry) % 1000>>
            \o WideMulDigit(w, m, k + 1, (w[k] * m + carry) \div 1000)

\* a + b, from digit k on
RECURSIVE WideAdd(_, _, _, _)
WideAdd(a, b, k, carry) ==
    IF k > Len(a) THEN <<>>
    ELSE <<(a[k] + b[k] + carry) % 1000>>
            \o WideAdd(a, b, k + 1, (a[k] + b[k] + carry) \div 1000)

\* w * 1000^j, the digits past the width dropped (they are 0 here)
WideShift3(w, j) == SubSeq(Zeros(j) \o w, 1, Len(w))

\* a * b, over the digits of b from j on
RECURSIVE WideMul(_, _, _)
WideMul(a, b, j) ==
    IF j > Len(b) THEN WideOf(0)
    ELSE WideAdd(WideShift3(WideMulDigit(a, b[j], 1, 0), j - 1),
                 WideMul(a, b, j + 1), 1, 0)

\* w / d for 0 < d < 1000000, from the most significant digit k down
RECURSIVE WideDiv(_, _, _, _)
WideDiv(w, d, k, rem) ==
    IF k = 0 THEN <<>>
    ELSE WideDiv(w, d, k - 1, (rem * 1000 + w[k]) % d)
            \o <<(rem * 1000 + w[k]) \div d>>

\* usize -> i32: try_into succeeds for values up to 2147483647
FitsI32(w) ==
    /\ \A k \in 5..Len(w) : w[k] = 0
    /\ \/ w[4] < 2
       \/ w[4] = 2 /\ w[1] + 1000 * w[2] + 1000000 * w[3] <= 147483647

I32Value(w) == w[1] + 1000 * w[2] + 1000000 * w[3] + 1000000000 * w[4]

\* table.rs:57-66, the loop `for i in 1..k { f *= n - i; l *= i + 1 }` and f / l
RECURSIVE SubfactorLoop(_, _, _, _, _)
SubfactorLoop(f, l, i, k, n) ==
    IF i >= k THEN WideDiv(f, l, Len(f), 0)
    ELSE SubfactorLoop(WideMul(f, WideOf(n - i), 1), l * (i + 1), i + 1, k, n)

subfactor(k, n) == SubfactorLoop(WideOf(n), 1, 1, k, n)

\* The result of calculate_factors when a try_into().unwrap() fails.
FactorsPanic == [tag |-> "Panic", tb_size |-> WideOf(0), factors |-> Zeros(MAX_PIECES)]

\* pawnless calculate_factors, the loop `for k in 0..`
RECURSIVE FactorsLoop(_, _, _, _, _, _, _, _)
FactorsLoop(men, order, norm, pivfac, k, i, f, factors) ==
    IF k = order
    THEN IF ~FitsI32(f) THEN FactorsPanic
         ELSE FactorsLoop(men, order, norm, pivfac, k + 1, i,
                          WideMul(f, WideOf(pivfac), 1),
                          [factors EXCEPT ![1] = I32Value(f)])
    ELSE IF i < men
    THEN IF ~FitsI32(f) THEN FactorsPanic
         ELSE FactorsLoop(men, order, norm, pivfac, k + 1, i + norm[i + 1],
                          WideMul(f, subfactor(norm[i + 1], 64 - i), 1),
                          [factors EXCEPT ![i + 1] = I32Value(f)])
    ELSE [tag |-> "Ok", tb_size |-> f, factors |-> factors]

pawnless_calculate_factors(men, order, norm, zero) ==
    FactorsLoop(men, order, norm, IF zero THEN 31332 ELSE 462, 0, norm[1],
                WideOf(1), Zeros(MAX_PIECES))

\* The materials without pawns (the two kings alone have no table).
PawnlessMaterials ==
    {m \in CappedMaterials : m[1][Pawn] + m[2][Pawn] = 0 /\ count(m) > 2}

\* the pivot orders a header nibble is tried with
MaxOrder == 6

\* calculate_factors for the white-to-move table of a well-formed file
FactorsCall(material, order) ==
    /\ arg = NoCall
    /\ arg' = [op |-> "factors", material |-> material, order |-> order,
               norm |-> pawnless_calculate_norm(EncodingZero(material),
                                                FilePieces(material))]
    /\ ret' = [op |-> "factors",
               out |-> pawnless_calculate_factors(
                          count(material), order,
                          pawnless_calculate_norm(EncodingZero(material),
                                                  FilePieces(material)),
                          EncodingZero(material))]
    /\ UNCHANGED <<max_pieces, wdl, position, result, last_load, last_file, last_files,
                   before, ply, loads, stack, missed, threads>>

NextFactors ==
    \E material \in PawnlessMaterials : \E order \in 0..MaxOrder : FactorsCall(material, order)

SpecFactors == Init /\ [][NextFactors]_vars

(***************************************************************************)
(* The probe one call at a time: probe_wdl is entered, every               *)
(* probe_alpha_beta is entered and returns, probe_wdl returns.             *)
(***************************************************************************)
\* read_wdl(pos) returns None: castling rights, or no table under the key.
Unreadable(w, pos) ==
    \/ pos.castle # {}
    \/ MaterialOf(pos) # MaterialDefault /\ TableKey(pos) \notin DOMAIN w

Top == stack[Len(stack)]

\* the position probe_alpha_beta is called on from the top frame, and its window
CalleePos == play_unchecked(Top.pos, Top.captures[Top.i])

CalleeAlpha == IF Top.root THEN Loss ELSE Neg(Top.beta)

\* probe_wdl is called: line 158 to the head of the loop at line 200
SearchCall(order) ==
    /\ position # NoBoard
    /\ stack = <<>>
    /\ result = NotProbed
    /\ stack' = <<RootFrame(position, order, read_wdl(wdl, position))>>
    /\ missed' = Unreadable(wdl, position)
    /\ UNCHANGED <<max_pieces, wdl, position, result, last_load, last_file, last_files, before, ply, loads,
                   threads, arg, ret>>

\* probe_alpha_beta is called on the next capture: lines 200-202 and 249-251,
\* then lines 228-247 of the callee
SearchRecurse ==
    /\ stack # <<>>
    /\ ~Top.done
    /\ Top.i <= Len(Top.captures)
    /\ stack' = Append(stack, ChildFrame(CalleePos, CalleeAlpha, Neg(Top.alpha),
                                         Top.order, read_wdl(wdl, CalleePos)))
    /\ missed' = (missed \/ Unreadable(wdl, CalleePos))
    /\ UNCHANGED <<max_pieces, wdl, position, result, last_load, last_file, last_files, before, ply, loads,
                   threads, arg, ret>>

\* The loop over the captures ends.
SearchLoopEnd ==
    /\ stack # <<>>
    /\ ~Top.done
    /\ Top.i > Len(Top.captures)
    /\ stack' = [stack EXCEPT ![Len(stack)] = LoopEnd(Top)]
    /\ UNCHANGED <<max_pieces, wdl, position, result, last_load, last_file, last_files, before, ply, loads,
                   missed,
                   threads, arg, ret>>

\* probe_alpha_beta returns to its caller.
SearchReturn ==
    /\ Len(stack) >= 2
    /\ Top.done
    /\ stack' = [SubSeq(stack, 1, Len(stack) - 1) EXCEPT
                    ![Len(stack) - 1] = Resume(stack[Len(stack) - 1], Top.val)]
    /\ UNCHANGED <<max_pieces, wdl, position, result, last_load, last_file, last_files, before, ply, loads,
                   missed,
                   threads, arg, ret>>

\* probe_wdl returns to the caller.
SearchFinish ==
    /\ Len(stack) = 1
    /\ Top.done
    /\ result' = Top.val
    /\ stack' = <<>>
    /\ UNCHANGED <<max_pieces, wdl, position, last_load, last_file, last_files, before, ply, loads, missed,
                   threads, arg, ret>>

NextSearch ==
    \/ \E n \in DirectoryMen : \E seed \in 0..MaxSeed :
          AddDirectory(MaxLoads, Directories[n, seed])
    \/ \E str \in LoadStrings : \E file \in LoadFiles(str) :
          LoadBytes(MaxLoads, str, file)
    \/ \E pos \in StartPositions : SetBoard(pos)
    \/ PlayMove
    \/ \E order \in {"asc", "desc"} : SearchCall(order)
    \/ SearchRecurse
    \/ SearchLoopEnd
    \/ SearchReturn
    \/ SearchFinish

SpecSearch == Init /\ [][NextSearch]_vars

(***************************************************************************)
(* Probes on several threads.  The loads take &mut self and come before    *)
(* the Tablebase is shared; every thread then calls probe_wdl(&self, ..)   *)
(* on positions of its own, and the calls advance one activation step at a *)
(* time in any interleaving.                                               *)
(***************************************************************************)
MaxThreads == 2

ThreadPositions == {FenRookCapture, FenKingFork, FenEpBest, FenExchange, FenThreePawns}

IdleThread ==
    [pos |-> NoBoard, order |-> "asc", stack |-> <<>>, result |-> NotProbed,
     seen |-> [wdl |-> <<>>, max_pieces |-> 0]]

\* The activations every thread works on, were they kept in one place.
Locals_Shared(t) == threads[1].stack

\* The activations of the probe of thread t: locals of its own calls.
Locals(t) == threads[t].stack

\* One step of a probe in progress on the activations st: a call of
\* probe_alpha_beta on the next capture, the end of a loop, or a return.
SearchStep(w, st) ==
    LET top    == st[Len(st)]
        callee == play_unchecked(top.pos, top.captures[top.i])
    IN IF ~top.done /\ top.i <= Len(top.captures)
       THEN Append(st, ChildFrame(callee, IF top.root THEN Loss ELSE Neg(top.beta),
                                  Neg(top.alpha), top.order, read_wdl(w, callee)))
       ELSE IF ~top.done
       THEN [st EXCEPT ![Len(st)] = LoopEnd(top)]
       ELSE [SubSeq(st, 1, Len(st) - 1) EXCEPT
                ![Len(st) - 1] = Resume(st[Len(st) - 1], top.val)]

\* The Tablebase is shared among the threads.
Share ==
    /\ threads = <<>>
    /\ threads' = [t \in 1..MaxThreads |-> IdleThread]
    /\ UNCHANGED <<max_pieces, wdl, position, result, last_load, last_file, last_files,
                   before, ply, loads, stack, missed, arg, ret>>

\* Thread t calls probe_wdl(&pos).
ThreadCall(t, pos, order) ==
    /\ threads # <<>>
    /\ threads[t].stack = <<>>
    /\ threads' = [threads EXCEPT ![t] =
                      [pos |-> pos, order |-> order,
                       stack |-> <<RootFrame(pos, order, read_wdl(wdl, pos))>>,
                       result |-> NotProbed,
                       seen |-> [wdl |-> wdl, max_pieces |-> max_pieces]]]
    /\ UNCHANGED <<max_pieces, wdl, position, result, last_load, last_file, last_files,
                   before, ply, loads, stack, missed, arg, ret>>

\* The probe of thread t advances by one step.
ThreadStep(t) ==
    /\ threads # <<>>
    /\ Locals(t) # <<>>
    /\ ~(Len(Locals(t)) = 1 /\ Locals(t)[1].done)
    /\ threads' = [threads EXCEPT ![t].stack = SearchStep(wdl, Locals(t))]
    /\ UNCHANGED <<max_pieces, wdl, position, result, last_load, last_file, last_files,
                   before, ply, loads, stack, missed, arg, ret>>

\* probe_wdl returns to thread t.
ThreadFinish(t) ==
    /\ threads # <<>>
    /\ Len(Locals(t)) = 1
    /\ Locals(t)[1].done
    /\ threads' = [threads EXCEPT ![t].stack = <<>>, ![t].result = Locals(t)[1].val]
    /\ UNCHANGED <<max_pieces, wdl, position, result, last_load, last_file, last_files,
                   before, ply, loads, stack, missed, arg, ret>>

NextThreads ==
    \/ \E n \in DirectoryMen : \E seed \in 0..MaxSeed :
          AddDirectory(MaxLoads, Directories[n, seed])
    \/ Share
    \/ \E t \in 1..MaxThreads : \E pos \in ThreadPositions : \E order \in {"asc", "desc"} :
          ThreadCall(t, pos, order)
    \/ \E t \in 1..MaxThreads : ThreadStep(t)
    \/ \E t \in 1..MaxThreads : ThreadFinish(t)

SpecThreads == Init /\ [][NextThreads]_vars

(***************************************************************************)
(* Reference definitions the properties are stated with.                   *)
(***************************************************************************)
MaxOf(S) == CHOOSE x \in S : \A y \in S : y <= x

\* The unpruned capture-negamax value: the larger of the table value and of
\* the negated values of the positions after every capture (at the root the
\* en-passant captures too); None where a needed table is not loaded.
RECURSIVE Negamax(_, _, _)
NegamaxOf(r, children) ==
    IF r.tag # "Some" \/ \E c \in children : c.tag # "Some" THEN None
    ELSE Some(MaxOf({r.wdl} \cup {Neg(c.wdl) : c \in children}))

Negamax(w, pos, root) ==
    NegamaxOf(read_wdl(w, pos),
              {Negamax(w, play_unchecked(pos, mv), FALSE) :
                  mv \in IF root THEN RootCaptures(pos) ELSE CaptureMoves(pos)})

\* The value of the position after the capture mv, for the side that made it.
CaptureValue(w, pos, mv) == Neg(Negamax(w, play_unchecked(pos, mv), FALSE).wdl)

Probed == result.tag # "NotProbed"

PieceCount(pos) == Cardinality(Occupied(pos.board))

NonKingPieces(pos) == PieceCount(pos) - 2

\* The complete sets of tables.
FullSets == [n \in DirectoryMen |-> CanonicalMaterials(n)]

FullyLoaded(w, n) == FullSets[n] \subseteq DOMAIN w

\* The position with the colours of the pieces and the side to move swapped
\* and the board flipped top to bottom.
MirrorColours(pos) ==
    [board  |-> [s \in Squares |->
                    LET v == pos.board[flip_rank(s)]
                    IN IF v = 0 THEN 0
                       ELSE CP(Not(ColoredPiece_color(v)), ColoredPiece_piece(v))],
     stm    |-> Not(pos.stm),
     ep     |-> pos.ep,
     castle |-> {<<Not(c[1]), c[2]>> : c \in pos.castle}]

(***************************************************************************)
(* C1                                                                      *)
(***************************************************************************)
\* C1: with every needed table loaded, on a position without castling rights
\* that is not a false stalemate, the value probe_wdl returns is the unpruned
\* capture-negamax value of the position.
C1_ProbeIsNegamax ==
    (/\ Probed
     /\ position.castle = {}
     /\ ~FalseStalemate(position)
     /\ Negamax(wdl, position, TRUE).tag = "Some")
        => /\ result.tag = "Some"
           /\ result.wdl = Negamax(wdl, position, TRUE).wdl

\* A probe whose value comes from a capture that the table value alone
\* would not give, and that is not a win.
C1_Witness ==
    /\ Probed
    /\ position.castle = {}
    /\ ~FalseStalemate(position)
    /\ Negamax(wdl, position, TRUE).tag = "Some"
    /\ result.tag = "Some"
    /\ result.wdl > read_wdl(wdl, position).wdl
    /\ result.wdl < Win
    /\ \E mv \in RootCaptures(position) :
          CaptureMoves(play_unchecked(position, mv)) # {}

(***************************************************************************)
(* C2                                                                      *)
(***************************************************************************)
\* Every activation of probe_alpha_beta is on a position with strictly fewer
\* pieces than the position of its caller.
StrictlyFewerPieces ==
    \A k \in 2..Len(stack) : PieceCount(stack[k].pos) < PieceCount(stack[k - 1].pos)

\* The number of nested activations of probe_alpha_beta is at most the number
\* of non-king pieces of the probed position.
DepthBounded == stack # <<>> => Len(stack) - 1 <= NonKingPieces(position)

\* A measure of the work a probe in progress has left.  A frame weighs 1
\* once it has its value, and otherwise 2 plus twice the number of its
\* captures not yet searched; a frame counts RankBase times as much as the
\* frame it called.
MaxCaptures == 16

RankBase == 2 * MaxCaptures + 3

FrameRank(k) ==
    LET fr == stack[k]
    IN IF fr.done THEN 1
       ELSE 2 + 2 * (Len(fr.captures) + 1 - fr.i - (IF k < Len(stack) THEN 1 ELSE 0))

RECURSIVE RankFrom(_)
RankFrom(k) ==
    IF k > Len(stack) THEN 0
    ELSE FrameRank(k) * RankBase ^ Max2(0, NonKingPieces(position) + 1 - k)
            + RankFrom(k + 1)

Rank == RankFrom(1)

\* C2: probe_wdl terminates: every recursive call of probe_alpha_beta is made
\* on a position with strictly fewer pieces than its caller's, the recursion
\* depth never exceeds the number of non-king pieces of the probed position,
\* no frame has more than MaxCaptures captures, and every step of a probe in
\* progress lowers the measure Rank, which is never negative.
C2_SearchTerminates ==
    /\ [](StrictlyFewerPieces /\ DepthBounded)
    /\ [](\A k \in 1..Len(stack) : Len(stack[k].captures) <= MaxCaptures /\ FrameRank(k) >= 1)
    /\ [][stack # <<>> => Rank' < Rank]_vars

\* The recursion as deep as the bound allows: three nested calls of
\* probe_alpha_beta on a position with three non-king pieces.
C2_Witness ==
    /\ Len(stack) = 4
    /\ NonKingPieces(position) = 3
    /\ PieceCount(stack[4].pos) = 2

(***************************************************************************)
(* C7                                                                      *)
(***************************************************************************)
\* C7: a probe_wdl that read a position with castling rights or without a
\* table under its key, at the root or in the capture search, returns None:
\* it returns neither a value nor a failure.
C7_MissingTableIsNone ==
    (stack = <<>> /\ Probed /\ missed) => result = NoneP

\* A probe that returned None because a position of the capture search, not
\* the probed position, has no table.
C7_Witness ==
    /\ stack = <<>>
    /\ Probed
    /\ missed
    /\ ~Unreadable(wdl, position)
    /\ result = NoneP

\* The probe run call by call returns what probe_wdl returns.
SearchAgrees ==
    (stack = <<>> /\ Probed) =>
        \E order \in {"asc", "desc"} : result = probe_wdl(wdl, position, order)

(***************************************************************************)
(* C3                                                                      *)
(***************************************************************************)
\* C3: when probe_wdl returns (Win, true) the position has a capture (or an
\* en-passant capture) after which the opponent's capture-search value is
\* Loss; when it returns (Loss, _) no capture or en-passant capture is worth
\* more than Loss.
C3_WinAndLossCaptures ==
    (/\ Probed
     /\ result.tag = "Some"
     /\ Negamax(wdl, position, TRUE).tag = "Some")
        => /\ (result.wdl = Win /\ result.capture)
                => \E mv \in RootCaptures(position) :
                      Negamax(wdl, play_unchecked(position, mv), FALSE).wdl = Loss
           /\ result.wdl = Loss
                => \A mv \in RootCaptures(position) :
                      CaptureValue(wdl, position, mv) <= Loss

\* A (Win, true) on a position whose table value is not Win and that has a
\* capture that does not win.
C3_Witness ==
    /\ Probed
    /\ result = SomeP(Win, TRUE)
    /\ Negamax(wdl, position, TRUE).tag = "Some"
    /\ read_wdl(wdl, position).wdl < Win
    /\ \E mv \in RootCaptures(position) : CaptureValue(wdl, position, mv) < Win

(***************************************************************************)
(* C4                                                                      *)
(***************************************************************************)
\* The tablebase with the table of the probed position replaced by the
\* table of other contents.
WithRootSeed(w, pos, seed) ==
    IF TableKey(pos) \in DOMAIN w
    THEN [w EXCEPT ![TableKey(pos)] = [w[TableKey(pos)] EXCEPT !.seed = seed]]
    ELSE w

\* C4: in a false stalemate (an en-passant capture and no other legal move)
\* probe_wdl returns (the best value over the en-passant captures, true),
\* and returns the same whatever the table stores for the position itself.
C4_FalseStalemate ==
    (/\ Probed
     /\ result.tag = "Some"
     /\ FalseStalemate(position)
     /\ Negamax(wdl, position, TRUE).tag = "Some")
        => /\ result.capture
           /\ result.wdl = MaxOf({CaptureValue(wdl, position, mv) :
                                     mv \in RootCaptures(position)})
           /\ \A seed \in 0..MaxSeed : \A order \in {"asc", "desc"} :
                 probe_wdl(WithRootSeed(wdl, position, seed), position, order) = result

\* A false stalemate whose table value is above the value returned.
C4_Witness ==
    /\ Probed
    /\ result.tag = "Some"
    /\ FalseStalemate(position)
    /\ \A mv \in RootCaptures(position) : IsEnPassant(position, mv)
    /\ read_wdl(wdl, position).wdl > result.wdl

(***************************************************************************)
(* C5                                                                      *)
(***************************************************************************)
\* C5: on a position without a capture and without an en-passant capture
\* probe_wdl returns (read_wdl(p), false), whatever the table value.
C5_NoCapture ==
    (/\ Probed
     /\ RootCaptures(position) = {}
     /\ read_wdl(wdl, position).tag = "Some")
        => result = SomeP(read_wdl(wdl, position).wdl, FALSE)

\* A stalemate whose table value is below Draw, returned as it is.
C5_Witness ==
    /\ Probed
    /\ LegalMoves(position) = {}
    /\ read_wdl(wdl, position).tag = "Some"
    /\ result.tag = "Some"
    /\ result.wdl < Draw
    /\ ~result.capture

(***************************************************************************)
(* C6                                                                      *)
(***************************************************************************)
\* C6: on a position with the two kings only and no castling rights
\* probe_wdl returns (Draw, false), whichever side is to move and whatever
\* the Tablebase holds.
C6_KvK ==
    (/\ Probed
     /\ MaterialOf(position) = MaterialDefault
     /\ position.castle = {})
        => result = SomeP(Draw, FALSE)

\* The two kings, Black to move, probed against the empty Tablebase.
C6_Witness ==
    /\ Probed
    /\ MaterialOf(position) = MaterialDefault
    /\ position.stm = Black
    /\ wdl = <<>>
    /\ result = SomeP(Draw, FALSE)

(***************************************************************************)
(* C8                                                                      *)
(***************************************************************************)
\* The map holds every table of the n-men set and the position has at most
\* n men.
Covered(w, pos) ==
    \E n \in DirectoryMen : FullyLoaded(w, n) /\ PieceCount(pos) <= n

MirrorPieces(pos) == [MirrorColours(pos) EXCEPT !.stm = pos.stm]

\* C9 as the specification states it: against a fully loaded tablebase the
\* value of the mirrored position is the negation of the value of the
\* position (for either reading of the mirror: side to move swapped with the
\* colours, or kept).
C9_MirrorNegates ==
    (Probed /\ position.castle = {} /\ Covered(wdl, position))
        => \E order \in {"asc", "desc"} :
              \/ probe_wdl(wdl, MirrorColours(position), order).wdl = Neg(result.wdl)
              \/ probe_wdl(wdl, MirrorPieces(position), order).wdl = Neg(result.wdl)

\* The symmetry a value for the side to move would have: the mirrored
\* position, side to move swapped, has the value of the position.  The
\* probe does not have it either: with three pawns of the leading colour
\* the two positions hand their pawns to the index in different orders,
\* which the loop at pawnful.rs lines 214-220 does not undo, and they read
\* different entries of the table (FenThreePawns).
MirrorSameValue ==
    (Probed /\ position.castle = {} /\ Covered(wdl, position))
        => probe_wdl(wdl, MirrorColours(position), "asc").wdl = result.wdl

(***************************************************************************)
(* C10                                                                     *)
(***************************************************************************)
\* C10 as the specification states it: a load of data whose first four
\* bytes are not the magic returns the error NotSyzygy.
C10_BadMagicIsNotSyzygy ==
    (last_file # NoFile /\ read_u32(last_file.magic) # SYZYGY_MAGIC)
        => last_load = "NotSyzygy"

(***************************************************************************)
(* Loads that fail, repeat or follow one another.                          *)
(***************************************************************************)
\* The values a load returns as Err(..).
ErrValues == {"UnknownMaterial", "Io"}

\* The material key of file i of the last load.
LastKey(i) == Material_from_str(last_files[i].stem)

\* C11 (as amended): a failed single-file load leaves the Tablebase exactly
\* as it was before the call; a failed add_directory keeps the tables of the
\* files that precede the failing one and the max_pieces they raised, does
\* not insert the failing file's key and keeps every table loaded before.
C11_FailedLoadKeepsEarlierTables ==
    last_load \in ErrValues =>
        \E i \in 1..Len(last_files) :
            /\ LastKey(i).ok => LastKey(i).material \notin DOMAIN wdl
            /\ DOMAIN wdl = DOMAIN before.wdl
                               \cup {LastKey(j).material : j \in 1..(i - 1)}
            /\ \A m \in DOMAIN before.wdl : wdl[m] = before.wdl[m]
            /\ max_pieces = MaxOf({before.max_pieces}
                                     \cup {count(LastKey(j).material) : j \in 1..(i - 1)})
            /\ Len(last_files) = 1 =>
                  wdl = before.wdl /\ max_pieces = before.max_pieces

\* a single-file load fails on a Tablebase that already holds a table
C11_Witness ==
    /\ Len(last_files) = 1
    /\ last_load = "Io"
    /\ before.wdl # <<>>
    /\ before.max_pieces < count(LastKey(1).material)
    /\ wdl = before.wdl

\* C11 as stated: every load that returns Err leaves the Tablebase exactly
\* as it was before the call.
C11_FailedLoadChangesNothing ==
    last_load \in ErrValues => wdl = before.wdl /\ max_pieces = before.max_pieces

\* C12: a load whose material keys are all in the map already returns Ok and
\* leaves the map, the tables stored in it and max_pieces unchanged, whatever
\* the data it is handed.
C12_PresentKeyIsNoOp ==
    (/\ last_files # <<>>
     /\ \A i \in 1..Len(last_files) :
           LastKey(i).ok /\ LastKey(i).material \in DOMAIN before.wdl)
        => /\ last_load = "Ok"
           /\ wdl = before.wdl
           /\ max_pieces = before.max_pieces

\* a key in the map is loaded again from data that is no table file
C12_Witness ==
    /\ Len(last_files) = 1
    /\ LastKey(1).ok
    /\ LastKey(1).material \in DOMAIN before.wdl
    /\ read_u32(last_file.magic) # SYZYGY_MAGIC
    /\ last_load = "Ok"
    /\ wdl = before.wdl

\* C13: max_pieces is the maximum of 2 and the largest piece count, kings
\* included, among the keys of the map, and no load lowers it.
C13_MaxPieces ==
    /\ max_pieces = MaxOf({2} \cup {count(m) : m \in DOMAIN wdl})
    /\ max_pieces >= before.max_pieces

\* a smaller table is loaded after a larger one
C13_Witness ==
    /\ Len(last_files) = 1
    /\ last_load = "Ok"
    /\ DOMAIN wdl # DOMAIN before.wdl
    /\ count(LastKey(1).material) < before.max_pieces
    /\ max_pieces = before.max_pieces

\* C14: a load of a file with a valid magic that ends inside its piece bytes
\* returns an error value.
C14_TruncatedIsError ==
    (/\ Len(last_files) = 1
     /\ LastKey(1).ok
     /\ LastKey(1).material \notin DOMAIN before.wdl
     /\ read_u32(last_file.magic) = SYZYGY_MAGIC
     /\ Len(last_file.men) < count(LastKey(1).material))
        => last_load \in ErrValues


(***************************************************************************)
(* Probes on several threads.                                              *)
(***************************************************************************)
\* C15: in every interleaving of the probes of the threads each probe_wdl
\* call returns what it returns when run alone, and the map, the tables and
\* max_pieces are as they were when the probe was called.
C15_ProbesDoNotInterfere ==
    \A t \in DOMAIN threads :
        /\ threads[t].pos # NoBoard =>
              wdl = threads[t].seen.wdl /\ max_pieces = threads[t].seen.max_pieces
        /\ threads[t].result # NotProbed =>
              threads[t].result = probe_wdl(wdl, threads[t].pos, threads[t].order)

\* a probe has returned a value while the probe of another thread, on another
\* position, is inside its capture search
C15_Witness ==
    /\ threads # <<>>
    /\ threads[2].result # NotProbed
    /\ threads[2].result.tag = "Some"
    /\ Len(threads[1].stack) >= 2
    /\ threads[1].pos # threads[2].pos

(***************************************************************************)
(* The pairs decoder.                                                      *)
(***************************************************************************)
\* The value was taken from its block without a load past the end of the
\* data: it is not in the last 32 bits of the last block.
InsideData ==
    LET place == arg.stream.places[ret.index + 1]
    IN ~(/\ place.block = Len(arg.stream.blocks)
         /\ place.bit >= 8 * (2 ^ arg.made.pairs_data.block_size) - 32)

\* The literal lookup returned is the value the stream holds at the index.
PairsLookupDecodes ==
    (arg.op = "pairs" /\ arg.well_formed /\ ret.op = "lookup" /\ ~ret.out.constant) =>
        /\ ret.out.tag = "Ok" <=> InsideData
        /\ ret.out.tag = "Ok" =>
              /\ ret.out.value = arg.stream.values[ret.index + 1]
              /\ arg.made.pairs_data.symlen[ret.out.sym + 1] = 0
              /\ ret.out.value = arg.made.pairs_data.sympat[3 * ret.out.sym + 1]

\* C16: for a well-formed PairsData built for table size N, lookup(i)
\* completes for every i < N without an out-of-range access and returns
\* sympat[3 * sym] for a symbol sym whose symlen is 0.
C16_LookupCompletes ==
    (arg.op = "pairs" /\ arg.well_formed /\ ret.op = "lookup" /\ ~ret.out.constant) =>
        /\ ret.out.tag = "Ok"
        /\ arg.made.pairs_data.symlen[ret.out.sym + 1] = 0
        /\ ret.out.value = arg.made.pairs_data.sympat[3 * ret.out.sym + 1]

\* The PairsData with its index, size and data tables taken away.
WithoutTables(pd) ==
    [pd EXCEPT !.index_table = <<>>, !.size_table = <<>>, !.data = <<>>]

\* C17 (as amended): lookup takes the constant path, returning min_len
\* without consulting the index, size or data tables, exactly when the
\* stored index_bits is 0: for every stream whose flags byte had bit 7 set,
\* and for a stream parsed through the non-constant header path exactly when
\* its header's index_bits byte is 0; a constant stream reports index, size
\* and data table sizes of zero and returns its min_len byte for every index.
C17_ConstantPath ==
    (arg.op = "pairs" /\ ret.op = "lookup") =>
        /\ ret.out.constant <=>
              (arg.stream.bytes[1] >= 128 \/ arg.stream.bytes[3] = 0)
        /\ ret.out.constant =>
              /\ ret.out.tag = "Ok"
              /\ ret.out.value = arg.made.pairs_data.min_len
              /\ ret.out = PairsData_lookup(WithoutTables(arg.made.pairs_data), ret.index)
        /\ arg.stream.bytes[1] >= 128 =>
              /\ arg.made.sizes = NoSizes
              /\ ret.out.value = arg.stream.bytes[2]

\* a constant stream of a value other than 0 is looked up past its first index
C17_Witness ==
    /\ arg.op = "pairs"
    /\ ret.op = "lookup"
    /\ arg.stream.bytes[1] >= 128
    /\ arg.stream.bytes[2] = Win
    /\ ret.index > 0
    /\ ret.out.constant
    /\ ret.out.value = Win
    /\ arg.made.sizes = NoSizes

\* C17 as stated: lookup takes the constant path exactly for the streams
\* whose flags byte had bit 7 set.
C17_ConstantPathOnlyWithBit7 ==
    (arg.op = "pairs" /\ ret.op = "lookup") =>
        (ret.out.constant <=> arg.stream.bytes[1] >= 128)

(***************************************************************************)
(* Material strings.                                                       *)
(***************************************************************************)
\* C18: for every Material within the piece cap, parsing the string that
\* formatting it produces succeeds and yields the Material again.
C18_ParseFormat ==
    arg.op = "format" => ret.parsed = [ok |-> TRUE, material |-> arg.material]

\* a Material at the piece cap with men of every kind on the two sides
C18_Witness ==
    /\ arg.op = "format"
    /\ count(arg.material) = MAX_PIECES
    /\ arg.material[1][Queen] > 0 /\ arg.material[1][Pawn] > 0
    /\ arg.material[2][Knight] > 0 /\ arg.material[2][Bishop] > 0
    /\ arg.material[2][Rook] > 0
    /\ ret.parsed.ok
    /\ ret.parsed.material = arg.material

LowerCaseLetters == {"q", "r", "b", "n", "p", "k"}

\* C19 (as amended): material parsing is case-sensitive in the piece letters;
\* a string with a lower-case piece letter does not parse, it fails with
\* UnknownMaterial.
C19_ParsingIsCaseSensitive ==
    (/\ arg.op = "parse"
     /\ \E i \in 1..Len(arg.str) : arg.str[i] \in LowerCaseLetters)
        => ~ret.parsed.ok

\* a string does not parse and its upper-case form does, to a Material with a piece
C19_Witness ==
    /\ arg.op = "parse"
    /\ ~ret.parsed.ok
    /\ ret.upper.ok
    /\ count(ret.upper.material) > 2

\* C19 as stated: a string with lower-case piece letters parses to the
\* Material of its upper-case form.
C19_ParsingIsCaseInsensitive ==
    (arg.op = "parse" /\ ret.upper.ok) => ret.parsed = ret.upper

(***************************************************************************)
(* pawn_file.                                                              *)
(***************************************************************************)
\* pawn_file permutes the first white_pawns entries only and returns
\* FILE_TO_FILE of the file of the square it leaves first.
PawnFileFrame ==
    LET wp == arg.white_pawns
        in == arg.piece_squares
        out == ret.piece_squares
    IN /\ Len(out) = Len(in)
       /\ {out[i] : i \in 1..wp} = {in[i] : i \in 1..wp}
       /\ \A i \in (wp + 1)..Len(in) : out[i] = in[i]
       /\ ret.file = FILE_TO_FILE(FileOf(out[1]))

\* C20 (as amended): pawn_file leaves in piece_squares[0] a pawn with the
\* minimum FLAP value among the first wp entries, only permutes those first
\* wp entries, and returns FILE_TO_FILE of that square's file.
C20_PawnFileLeadsWithMinimum ==
    arg.op = "pawn_file" =>
        /\ \A i \in 1..arg.white_pawns :
              FLAP(ret.piece_squares[1]) <= FLAP(arg.piece_squares[i])
        /\ PawnFileFrame

\* a later pawn of smaller FLAP value is brought to the front
C20_Witness ==
    /\ arg.op = "pawn_file"
    /\ arg.white_pawns = 2
    /\ ret.piece_squares[1] = arg.piece_squares[2]
    /\ FLAP(arg.piece_squares[2]) < FLAP(arg.piece_squares[1])
    /\ ret.file = FILE_TO_FILE(FileOf(arg.piece_squares[2]))

\* C20 as stated: the pawn left first has the maximum FLAP value among the
\* first wp entries.
C20_PawnFileLeadsWithMaximum ==
    arg.op = "pawn_file" =>
        /\ \A i \in 1..arg.white_pawns :
              FLAP(ret.piece_squares[1]) >= FLAP(arg.piece_squares[i])
        /\ PawnFileFrame

(***************************************************************************)
(* The pawnful table: pawn ordering and pawn counts.                       *)
(***************************************************************************)
\* C21: the pawn ordering step of the pawnful Table::index is a
\* canonicalisation: two square lists that differ only by a permutation of
\* the leading pawns at positions 1..wp-1 have the same index, and the step
\* never moves a square at a position >= wp.
C21_PawnOrderIsCanonical ==
    arg.op = "index" =>
        /\ ret.index = ret.permuted_index
        /\ \A k \in (arg.white_pawns + 1)..Len(arg.piece_squares) :
              ret.ordered[k] = ret.flipped[k]

\* the leading count is positive, and it is at most the other count when
\* the other side has pawns
PawnCountsLeadFewer ==
    /\ ret.white_pawns > 0
    /\ ret.black_pawns # 0 => ret.white_pawns <= ret.black_pawns
    /\ {ret.white_pawns, ret.black_pawns}
          = {arg.material[1][Pawn], arg.material[2][Pawn]}

\* C22 (as amended): in the pawnful loader, for every material with at
\* least one pawn, after the pawn-count swap the leading count wp is > 0,
\* and wp <= bp when both sides have pawns; when one side has no pawn, bp
\* is 0 and wp is the pawn count of the other side.
C22_LeadingPawnCount ==
    arg.op = "pawn_counts" =>
        /\ PawnCountsLeadFewer
        /\ (arg.material[1][Pawn] = 0 \/ arg.material[2][Pawn] = 0) =>
              /\ ret.black_pawns = 0
              /\ ret.white_pawns = arg.material[1][Pawn] + arg.material[2][Pawn]

\* White has more pawns than Black, who has some: the counts are swapped
C22_Witness ==
    /\ arg.op = "pawn_counts"
    /\ arg.material[1][Pawn] = 3
    /\ arg.material[2][Pawn] = 1
    /\ ret.white_pawns = 1
    /\ ret.black_pawns = 3

\* C22 as stated: after the swap wp > 0 and wp <= bp.
C22_LeadingCountAtMostOther ==
    arg.op = "pawn_counts" =>
        ret.white_pawns > 0 /\ ret.white_pawns <= ret.black_pawns

(***************************************************************************)
(* The pairs decoder: block walk, symbol lengths, expansion, wide shift.   *)
(***************************************************************************)
\* The number of literals in the expansion tree of symbol s.
RECURSIVE Literals(_, _)
Literals(sympat, s) ==
    IF read_u24(sympat, s) \div 4096 = 4095 THEN 1
    ELSE Literals(sympat, read_u24(sympat, s) % 4096)
            + Literals(sympat, read_u24(sympat, s) \div 4096)

\* The literals of the expansion tree of symbol s, left to right.
RECURSIVE Expansion(_, _)
Expansion(sympat, s) ==
    IF read_u24(sympat, s) \div 4096 = 4095 THEN <<sympat[3 * s + 1]>>
    ELSE Expansion(sympat, read_u24(sympat, s) % 4096)
            \o Expansion(sympat, read_u24(sympat, s) \div 4096)

\* The symbol lengths are the literal counts less one.
SymlenExact(pd) ==
    \A s \in 1..Len(pd.symlen) : pd.symlen[s] = Literals(pd.sympat, s - 1) - 1

\* Where create accepts the stream and no symbol stands for more than 256
\* values, create stores the exact lengths in either build, and the expansion loop returns the literal at
\* the residual and keeps the residual within the current symbol.
DecoderWithinU8 ==
    (arg.op = "pairs" /\ arg.made.tag = "Ok"
        /\ \A s \in 1..Len(arg.made.pairs_data.symlen) :
              Literals(arg.made.pairs_data.sympat, s - 1) <= 256) =>
        /\ SymlenExact(arg.made.pairs_data)
        /\ (ret.op = "lookup" /\ ret.out.top >= 0) =>
              /\ ret.out.tag = "Ok"
              /\ ret.out.within
              /\ ret.out.value
                    = Expansion(arg.made.pairs_data.sympat, ret.out.top)[ret.out.residual + 1]

\* Every symbol length is computed once, in every stream that create accepts.
SymlenComputedOnce ==
    (arg.op = "pairs" /\ arg.made.tag = "Ok") =>
        \A s \in 1..Len(arg.made.pairs_data.symlen) :
            arg.made.pairs_data.symlen_calls[s] = 1

\* C23: in lookup's expansion loop, entered with a symbol sym and a residual
\* r with 0 <= r <= symlen[sym], the loop ends and returns the r-th literal
\* (from 0, left to right) of sym's expansion tree, and throughout the loop
\* 0 <= residual <= symlen[current symbol].
C23_ExpansionReturnsLiteral ==
    (/\ arg.op = "pairs" /\ ret.op = "lookup"
     /\ ret.out.top >= 0
     /\ 0 <= ret.out.residual
     /\ ret.out.residual <= arg.made.pairs_data.symlen[ret.out.top + 1]) =>
        /\ ret.out.tag = "Ok"
        /\ ret.out.within
        /\ ret.out.residual < Literals(arg.made.pairs_data.sympat, ret.out.top)
        /\ ret.out.value
              = Expansion(arg.made.pairs_data.sympat, ret.out.top)[ret.out.residual + 1]

\* The number of values before the value at lit_index of the block.
RECURSIVE AbsolutePosition(_, _, _)
AbsolutePosition(size_table, block, lit_index) ==
    IF block = 0 THEN lit_index
    ELSE AbsolutePosition(size_table, block - 1,
                          lit_index + U16At(size_table, 2 * (block - 1)) + 1)

\* The walk as two loops one after the other: back while the residual is
\* negative, then forward while it is past the block.
WalkSequential(size_table, block, lit_index) ==
    IF ~WalkBack(size_table, block, lit_index).ok THEN NoWalk
    ELSE WalkForward(size_table, WalkBack(size_table, block, lit_index).block,
                     WalkBack(size_table, block, lit_index).lit_index)

\* C24: in lookup's block walk, for a well-formed size table, the walk ends
\* with 0 <= residual <= size_table[block], the absolute position of the
\* value is the same after the walk as before it, and the if/else form of
\* the code reaches the block and residual that the two loops one after the
\* other reach.
C24_BlockWalk ==
    (arg.op = "pairs" /\ ret.op = "lookup" /\ ret.out.from_block >= 0) =>
        /\ ret.out.block >= 0
        /\ 0 <= ret.out.lit_index
        /\ ret.out.lit_index
              <= U16At(arg.made.pairs_data.size_table, 2 * ret.out.block)
        /\ AbsolutePosition(arg.made.pairs_data.size_table,
                            ret.out.block, ret.out.lit_index)
              = AbsolutePosition(arg.made.pairs_data.size_table,
                                 ret.out.from_block, ret.out.from_lit)
        /\ AbsolutePosition(arg.made.pairs_data.size_table,
                            ret.out.block, ret.out.lit_index) = ret.index
        /\ WalkSequential(arg.made.pairs_data.size_table,
                          ret.out.from_block, ret.out.from_lit)
              = [ok |-> TRUE, block |-> ret.out.block, lit_index |-> ret.out.lit_index]

\* the walk went back from a block to an earlier block of another size
C24_Witness ==
    /\ arg.op = "pairs"
    /\ ret.op = "lookup"
    /\ ret.out.from_block >= 1
    /\ ret.out.from_lit < 0
    /\ ret.out.block < ret.out.from_block
    /\ U16At(arg.made.pairs_data.size_table, 2 * ret.out.block)
          # U16At(arg.made.pairs_data.size_table, 2 * ret.out.from_block)
    /\ ret.out.tag = "Ok"

\* C25: for every symbol s of an acyclic symbol-pattern table, the symlen[s]
\* that create stores is the number of literals of s's expansion tree less
\* one, with no wrap-around or overflow of the 8-bit value, and the length
\* of each symbol is computed once.  (Every stream built here has an
\* acyclic table.)
C25_SymlenCountsLiterals ==
    (arg.op = "pairs" /\ arg.stream.bytes[1] < 128) =>
        /\ arg.made.tag = "Ok"
        /\ SymlenExact(arg.made.pairs_data)
        /\ \A s \in 1..Len(arg.made.pairs_data.symlen) :
              arg.made.pairs_data.symlen_calls[s] = 1

\* C26: in lookup's symbol loop, when the code length l is 64, the shift
\* code <<= l leaves code equal to 0: it neither fails nor leaves code as
\* it was.
C26_ShiftBy64IsZero ==
    (arg.op = "pairs" /\ ret.op = "lookup" /\ ret.out.wide_shift # "none") =>
        ret.out.wide_shift = "zero"

(***************************************************************************)
(* The sub-table selected by a read.                                       *)
(***************************************************************************)
\* The side's sub-table exists: black_to_move only in a split table.
ReadSideExists == arg.op = "read" => (arg.side = Black => arg.table.split)

\* With four file sub-tables in the header the selected sub-table exists.
ReadFourFilesExists ==
    (arg.op = "read" /\ (~arg.table.pawnful \/ arg.table.files = 4)) =>
        /\ arg.f < arg.table.files
        /\ ret.out.tag = "Some"

\* C27: for every table loaded under a material and every position read_wdl
\* routes to it, the sub-table the read selects exists: in a pawnless table
\* black_to_move is selected only when the table is split, and in a pawnful
\* table tables[effective side][pawn_file result] is populated, also when
\* the header declares a single file sub-table.
C27_SubTableExists ==
    arg.op = "read" =>
        /\ arg.side = Black => arg.table.split
        /\ arg.table.pawnful => arg.f < arg.table.files
        /\ ret.out.tag = "Some"

(***************************************************************************)
(* The factors of a pawnless table.                                        *)
(***************************************************************************)
\* With at most six men every factor fits in an i32.
FactorsFitUpToSixMen ==
    (arg.op = "factors" /\ count(arg.material) <= 6) => ret.out.tag = "Ok"

\* C28: for every pawnless material with at most MAX_PIECES (8) men and
\* every pivot order, each factor computed by the pawnless
\* calculate_factors fits in a signed 32-bit integer, so that the
\* conversion into the i32 factors array never fails during load.
C28_FactorsFitI32 ==
    arg.op = "factors" => ret.out.tag = "Ok"


====
